---- MODULE Spec2Model ----
(***************************************************************************)
(* A model of shellbot: the command runner of command.py (a single worker  *)
(* thread in front of a job queue, with epoch-based invalidation), the     *)
(* flood-control scheduler of pyrcb.py (add_delayed / delay_loop) and the  *)
(* listen loop of pyrcb.py (readline / parse / _handle).                   *)
(***************************************************************************)
EXTENDS Integers, Sequences, FiniteSets, TLC

(***************************************************************************)
(* Bounds of the model.                                                    *)
(***************************************************************************)
MaxJobs == 2
MaxResets == 2
NumCallers == 2

\* The thread that runs start() in shellbot.py: the only one that calls reset().
MainThread == 1

Callers == 1..NumCallers
Jobs == 1..MaxJobs

\* The sentinel reset() pushes on the queue (Python's None).
None == [job |-> 0, state |-> -1]

VARIABLES
    \* ---- CommandRunner (command.py) ----
    state,          \* self.state: the epoch
    queue,          \* self.queue: FIFO of jobs and sentinels
    cpc,            \* per caller thread: position inside enqueue() / reset()
    cjob,           \* per caller thread: the job its enqueue() call carries
    ctag,           \* per caller thread: the value of self.state its enqueue() read
    nextJob,        \* the next job to be submitted
    wpc,            \* position of the worker thread inside loop() / run()
    witem,          \* loop(): the item being processed (command, callback, args, state)
    output,         \* loop(): the local variable output (0: not bound yet)
    procAlive,      \* the shell processes that are alive
    termSent,       \* the processes whose group was sent SIGTERM
    killSent,       \* the processes whose group was sent SIGKILL
    \* ---- history of the runner ----
    ran,            \* jobs whose command was spawned
    runDone,        \* jobs whose run() call returned
    calls,          \* the callback invocations, in order
    finished,       \* jobs the worker is done with
    epochAt1,       \* per job: self.state as read by the check of line 107
    epochAt2,       \* per job: self.state as read by the check of line 109
    resetsBegun,    \* number of reset() calls that incremented the epoch
    resetsAtEnq,    \* per job: resetsBegun when its enqueue() call began
    tagOf,          \* per job: the epoch its queue entry carries
    inQueueAtReset, \* jobs that were in the queue when a reset() was called
    putDone,        \* jobs whose enqueue() call returned
    pendingStale,   \* jobs enqueued before the reset() call in progress
    staleDone,      \* jobs enqueued before a reset() call that has returned
    \* ---- flood control (pyrcb.py) ----
    now,            \* best_clock(), in units of 0.1 s
    ticks,          \* number of times the clock was advanced
    delay_buffer,   \* self._delay_buffer: sorted list of (message_time, (command, args))
    last_sent,      \* self.last_sent: target -> (message_time, consecutive)
    delay_event,    \* self.delay_event: is the flag set
    alive,          \* self.alive
    dpc,            \* position of the scheduler thread inside delay_loop()
    dhead,          \* delay_loop(): message_time, (command, args) read from the head
    apc,            \* position of the sending thread inside add_delayed()
    acur,           \* add_delayed(): the entry being added
    nsub,           \* number of add_delayed() calls made
    \* ---- history of flood control ----
    wire,           \* the entries written to the socket, in order
    deleted,        \* the entries removed from the delay buffer, in order
    lastSub,        \* the latest add_delayed() call: target, clock, due-time, count
    runLog,         \* per target: due-time and count of its latest call, due-time
                    \* of the first call of its run of consecutive calls
    delay,          \* self.delay: is flood control on
    sendLog,        \* per send call: its message text and how the call ended
    \* ---- listen loop (pyrcb.py) ----
    lpc,            \* position of the listening thread inside listen()
    lline,          \* _listen(): the line readline() returned last
    nread,          \* number of lines read
    lerror,         \* the exception that left _listen(), if any
    listen_event,   \* self.listen_event: is the flag set
    \* ---- history of the listen loop ----
    lhandled,       \* _handle() was called for lline
    hcalls,         \* the handler calls _handle() made for the last line
    rawCalls,       \* the on_raw() calls _handle() made for the last line
    \* ---- registration and listen_async (pyrcb.py) ----
    is_registered,  \* self.is_registered
    rpc,            \* position of the main thread inside register()
    rsent,          \* the commands register() wrote to the socket
    lmode,          \* how the listen loop was started: listen or listen_async
    cbCalls,        \* number of calls of the callback of listen_async()
    \* ---- IRCBot.format and IRCBot.parse (pyrcb.py) ----
    fcmd,           \* format(): the argument command
    fargs,          \* format(): the argument args
    fres,           \* format(): the line returned, or the error raised
    pres,           \* parse(): the result for the line format() returned
    \* ---- IStr (pyrcb.py) ----
    ia,             \* three values, each an IStr or a plain string
    ib,
    ic,
    icmp,           \* the results of their comparisons and of hash()
    \* ---- NAMES replies (pyrcb.py) ----
    names_buffer,   \* self._names_buffer: channel -> names, in insertion order
    nicklist,       \* self.nicklist: channel -> names, in insertion order
    onNames,        \* the on_names() calls of the last 366 reply
    since,          \* the 353 replies handled since the last 366 reply
    last366,        \* the last 366 reply and the 353 replies it committed
    nevents,        \* number of 353 and 366 replies handled
    preAny,         \* per channel with a 353 reply since the last 366 reply:
                    \* its roster at the first of them
    preOwn,         \* per channel with a 353 reply since the last 366 reply
                    \* for it: its roster at the first of them
    \* ---- run-as user (command.py) ----
    mainpc,         \* main() of shellbot.py: not run, returned or started
    warned,         \* main() printed the warning about running as root
    supervisor,     \* the user id and group id shellbot runs with
    account,        \* pwd.getpwnam(self.user): pw_uid and pw_gid
    cred,           \* the user id and group id of the spawned command
    \* ---- one call of run() in detail (command.py) ----
    xpc,            \* position inside run() / get_output()
    xout,           \* len(output)
    xcap,           \* len(output) when the read loop was left
    xend,           \* how the read loop was left: timeout, cap or eof
    xnow,           \* time.monotonic(), in units of half the timeout
    xendtime,       \* get_output(): end_time
    xwaitEnd,       \* when process.wait(self.timeout / 2) raises
    xterm,          \* when SIGTERM was sent to the group, or -1
    xkill,          \* when SIGKILL was sent to the group, or -1
    xret,           \* the length of the output run() returned, or -1
    shell,          \* the shell process: running or exited
    kids,           \* children of the shell remain in its process group
    trap,           \* the processes of the group ignore SIGTERM
    pipeOpen,       \* some process holds the write end of stdout
    \* ---- the session and its channels (pyrcb.py) ----
    self_nickname,  \* self.nickname, <<>> for None
    channels,       \* self.channels: a list
    rbuffer,        \* self._buffer holds the beginning of a line
    session,        \* number of connect() calls after the first
    thread,         \* connect() started a delay_loop() thread that has not run
    subAt,          \* nsub when connect() was last called
    wireAt,         \* Len(wire) when connect() was last called
    revents,        \* number of JOIN, PART, KICK, QUIT, NICK and 001 events
    lastEv,         \* the last of these events and the state it was handled in
    rerror,         \* a handler of these events raised
    \* ---- split_string (pyrcb.py) ----
    sstring,        \* split_string(): the argument string
    sbytelen,       \* split_string(): the argument bytelen
    snobreak,       \* split_string(): the argument nobreak
    spc,            \* position inside split_string()
    sresult,        \* split_string(): result
    srest,          \* split_string(): rest
    sprev,          \* rest before the latest iteration of the loop
    serror,         \* what split_string() raised
    \* ---- command_done (shellbot.py) ----
    mpc,            \* command_done(): not called or returned
    mlines,         \* command_done(): the argument lines
    msent           \* the self.send() calls of command_done(), in order

rvars == <<state, queue, cpc, cjob, ctag, nextJob, wpc, witem, output,
           procAlive, termSent, killSent, ran, runDone, calls, finished,
           epochAt1, epochAt2, resetsBegun, resetsAtEnq, tagOf,
           inQueueAtReset, putDone, pendingStale, staleDone>>

svars == <<now, ticks, delay_buffer, last_sent, delay_event, alive, dpc, dhead,
           apc, acur, nsub, wire, deleted, lastSub, runLog, delay, sendLog>>

lvars == <<lpc, lline, nread, lerror, listen_event, lhandled, hcalls,
           rawCalls, is_registered, rpc, rsent, lmode, cbCalls>>

fvars == <<fcmd, fargs, fres, pres>>

ivars == <<ia, ib, ic, icmp>>

nvars == <<names_buffer, nicklist, onNames, since, last366, nevents, preAny,
           preOwn>>

uvars == <<mainpc, warned, supervisor, account, cred>>

cvars == <<self_nickname, channels, rbuffer, session, thread, subAt,
           wireAt, revents, lastEv, rerror>>

pvars == <<sstring, sbytelen, snobreak, spc, sresult, srest, sprev, serror>>

mvars == <<mpc, mlines, msent>>

xvars == <<xpc, xout, xcap, xend, xnow, xendtime, xwaitEnd, xterm, xkill,
           xret, shell, kids, trap, pipeOpen>>

vars == <<rvars, mvars, pvars, svars, lvars, cvars, xvars, fvars, ivars, nvars, uvars>>

notRunner == <<svars, mvars, pvars, lvars, cvars, xvars, fvars, ivars, nvars, uvars>>
\* What no step of a send call and no step of delay_loop() changes.
notSender == <<rvars, mvars, pvars, lvars, delay, cvars, xvars, fvars, ivars, nvars, uvars>>
\* The same and the log of the send calls.
notSend == <<notSender, sendLog>>
\* All but the listen loop and what close_socket() sets.
notListen == <<rvars, mvars, pvars, now, ticks, delay_buffer, last_sent, dpc, dhead, apc,
               acur, nsub, wire, deleted, lastSub, runLog, delay, sendLog, cvars,
               xvars,               fvars, ivars, nvars, uvars>>

(***************************************************************************)
(* CommandRunner.__init__                                                  *)
(***************************************************************************)
InitRunner ==
    /\ state = 0
    /\ queue = <<>>
    /\ cpc = [c \in Callers |-> "idle"]
    /\ cjob = [c \in Callers |-> 0]
    /\ ctag = [c \in Callers |-> 0]
    /\ nextJob = 1
    /\ wpc = "get"
    /\ witem = None
    /\ output = 0
    /\ procAlive = {}
    /\ termSent = {}
    /\ killSent = {}
    /\ ran = {}
    /\ runDone = {}
    /\ calls = <<>>
    /\ finished = {}
    /\ epochAt1 = [j \in Jobs |-> -1]
    /\ epochAt2 = [j \in Jobs |-> -1]
    /\ resetsBegun = 0
    /\ resetsAtEnq = [j \in Jobs |-> 0]
    /\ tagOf = [j \in Jobs |-> -1]
    /\ inQueueAtReset = {}
    /\ putDone = {}
    /\ pendingStale = {}
    /\ staleDone = {}

\* The output run() returns for a job: the decoded, line-split output of its
\* own command (one distinct value per job).
OutputOf(j) == j

\* The callback arguments enqueue() was given for a job.
ArgsOf(j) == j + 100

JobsIn(q) == {q[i].job : i \in 1..Len(q)} \ {0}

history == <<ran, runDone, calls, finished, epochAt1, epochAt2, resetsBegun,
             resetsAtEnq, tagOf, inQueueAtReset, putDone, pendingStale, staleDone>>
callerVars == <<cpc, cjob, ctag, nextJob>>
workerVars == <<wpc, witem, output>>
procVars == <<procAlive, termSent, killSent>>

(***************************************************************************)
(* enqueue(): the tuple is built first, which reads self.state, and is     *)
(* then put on the queue.                                                  *)
(***************************************************************************)
EnqueueRead(c) ==
    /\ cpc[c] = "idle"
    /\ nextJob <= MaxJobs
    /\ cpc' = [cpc EXCEPT ![c] = "enq_put"]
    /\ cjob' = [cjob EXCEPT ![c] = nextJob]
    /\ ctag' = [ctag EXCEPT ![c] = state]
    /\ nextJob' = nextJob + 1
    /\ resetsAtEnq' = [resetsAtEnq EXCEPT ![nextJob] = resetsBegun]
    /\ tagOf' = [tagOf EXCEPT ![nextJob] = state]
    /\ UNCHANGED notRunner
    /\ UNCHANGED <<state, queue, workerVars, procVars, ran, runDone, calls,
                   finished, epochAt1, epochAt2, resetsBegun, inQueueAtReset,
                   putDone, pendingStale, staleDone>>

EnqueuePut(c) ==
    /\ cpc[c] = "enq_put"
    /\ queue' = Append(queue, [job |-> cjob[c], state |-> ctag[c]])
    /\ cpc' = [cpc EXCEPT ![c] = "idle"]
    /\ putDone' = putDone \cup {cjob[c]}
    \* the locals of the call that has returned are gone
    /\ cjob' = [cjob EXCEPT ![c] = 0]
    /\ ctag' = [ctag EXCEPT ![c] = 0]
    /\ UNCHANGED notRunner
    /\ UNCHANGED <<state, nextJob, workerVars, procVars, ran,
                   runDone, calls, finished, epochAt1, epochAt2, resetsBegun,
                   resetsAtEnq, tagOf, inQueueAtReset, pendingStale, staleDone>>

(***************************************************************************)
(* reset(): self.state += 1, then self.queue.put(None).  It is called by   *)
(* start() of shellbot.py, on the main thread, when listen() has returned. *)
(***************************************************************************)
ResetInc(c) ==
    /\ c = MainThread
    /\ cpc[c] = "idle"
    /\ resetsBegun < MaxResets
    /\ state' = state + 1
    /\ cpc' = [cpc EXCEPT ![c] = "reset_put"]
    /\ resetsBegun' = resetsBegun + 1
    /\ inQueueAtReset' = inQueueAtReset \cup JobsIn(queue)
    /\ pendingStale' = putDone
    /\ UNCHANGED notRunner
    /\ UNCHANGED <<queue, cjob, ctag, nextJob, workerVars, procVars, ran,
                   runDone, calls, finished, epochAt1, epochAt2, resetsAtEnq, tagOf,
                   putDone, staleDone>>

ResetPut(c) ==
    /\ cpc[c] = "reset_put"
    /\ queue' = Append(queue, None)
    /\ cpc' = [cpc EXCEPT ![c] = "idle"]
    /\ staleDone' = staleDone \cup pendingStale
    /\ UNCHANGED notRunner
    /\ UNCHANGED <<state, cjob, ctag, nextJob, workerVars, procVars, ran,
                   runDone, calls, finished, epochAt1, epochAt2, resetsBegun,
                   resetsAtEnq, tagOf, inQueueAtReset, putDone, pendingStale>>

(***************************************************************************)
(* loop(): the worker thread.  self.stop is the attribute __init__ set to  *)
(* False (it shadows the method stop), so the loop does not end.           *)
(***************************************************************************)
\* item = self.queue.get(); if item is not None: ...
LoopGet ==
    /\ wpc = "get"
    /\ queue # <<>>
    /\ queue' = Tail(queue)
    /\ IF Head(queue) = None
          THEN UNCHANGED <<wpc, witem>>
          ELSE wpc' = "check1" /\ witem' = Head(queue)
    /\ UNCHANGED notRunner
    /\ UNCHANGED <<state, callerVars, output, procVars, history>>

\* LoopCheck1 without the comparison of line 107: every dequeued job is run.
LoopCheck1NoEpoch ==
    /\ wpc = "check1"
    /\ wpc' = "spawn"
    /\ epochAt1' = [epochAt1 EXCEPT ![witem.job] = state]
    /\ UNCHANGED notRunner
    /\ UNCHANGED <<state, queue, callerVars, witem, output, procVars, ran,
                   runDone, calls, finished, epochAt2, resetsBegun,
                   resetsAtEnq, tagOf, inQueueAtReset, putDone, pendingStale,
                   staleDone>>

\* if state == self.state:  (line 107)
LoopCheck1 ==
    /\ wpc = "check1"
    /\ wpc' = IF witem.state = state THEN "spawn" ELSE "check2"
    /\ epochAt1' = [epochAt1 EXCEPT ![witem.job] = state]
    /\ UNCHANGED notRunner
    /\ UNCHANGED <<state, queue, callerVars, witem, output, procVars, ran,
                   runDone, calls, finished, epochAt2, resetsBegun,
                   resetsAtEnq, tagOf, inQueueAtReset, putDone, pendingStale,
                   staleDone>>

\* run(): process = self.get_subprocess(command)
RunSpawn ==
    /\ wpc = "spawn"
    /\ procAlive' = procAlive \cup {witem.job}
    /\ ran' = ran \cup {witem.job}
    /\ wpc' = "read"
    /\ UNCHANGED notRunner
    /\ UNCHANGED <<state, queue, callerVars, witem, output, termSent,
                   killSent, runDone, calls, finished, epochAt1, epochAt2,
                   resetsBegun, resetsAtEnq, tagOf, inQueueAtReset, putDone,
                   pendingStale, staleDone>>

\* run(): output = self.get_output(process), which returns at the end of the
\* output, at the byte cap or when the time is up.
RunRead ==
    /\ wpc = "read"
    /\ wpc' = "poll"
    /\ UNCHANGED notRunner
    /\ UNCHANGED <<state, queue, callerVars, witem, output, procVars, history>>

\* run(): if process.poll() is None: os.killpg(process.pid, signal.SIGTERM)
RunPoll ==
    /\ wpc = "poll"
    /\ termSent' = IF witem.job \in procAlive
                      THEN termSent \cup {witem.job} ELSE termSent
    /\ wpc' = "wait"
    /\ UNCHANGED notRunner
    /\ UNCHANGED <<state, queue, callerVars, witem, output, procAlive,
                   killSent, history>>

\* run(): process.wait(self.timeout / 2) returns when the process has exited;
\* when the time is up first it raises TimeoutExpired, and the handler sends
\* SIGKILL to the group.  Then run() returns the decoded lines.
RunWait ==
    /\ wpc = "wait"
    /\ \/ /\ witem.job \notin procAlive
          /\ UNCHANGED killSent
       \/ /\ witem.job \in procAlive
          /\ killSent' = killSent \cup {witem.job}
    /\ output' = OutputOf(witem.job)
    /\ runDone' = runDone \cup {witem.job}
    /\ wpc' = "check2"
    /\ UNCHANGED notRunner
    /\ UNCHANGED <<state, queue, callerVars, witem, procAlive, termSent, ran,
                   calls, finished, epochAt1, epochAt2, resetsBegun,
                   resetsAtEnq, tagOf, inQueueAtReset, putDone, pendingStale,
                   staleDone>>

\* The operating system: a process exits, by itself or because of a signal.
ProcExit ==
    /\ \E p \in procAlive : procAlive' = procAlive \ {p}
    /\ UNCHANGED notRunner
    /\ UNCHANGED <<state, queue, callerVars, workerVars, termSent, killSent,
                   history>>

\* LoopCheck2 without the comparison of line 109: the callback is always called.
LoopCheck2Always ==
    /\ wpc = "check2"
    /\ epochAt2' = [epochAt2 EXCEPT ![witem.job] = state]
    /\ wpc' = "call"
    /\ UNCHANGED notRunner
    /\ UNCHANGED <<state, queue, callerVars, witem, output, procVars, ran,
                   runDone, calls, finished, epochAt1, resetsBegun,
                   resetsAtEnq, tagOf, inQueueAtReset, putDone, pendingStale,
                   staleDone>>

\* LoopCheck2 reusing the outcome of the comparison made at dequeue time
\* instead of reading self.state again.
LoopCheck2AtDequeue ==
    /\ wpc = "check2"
    /\ epochAt2' = [epochAt2 EXCEPT ![witem.job] = state]
    /\ IF witem.state = epochAt1[witem.job]
          THEN wpc' = "call" /\ UNCHANGED finished
          ELSE wpc' = "get" /\ finished' = finished \cup {witem.job}
    /\ UNCHANGED notRunner
    /\ UNCHANGED <<state, queue, callerVars, witem, output, procVars, ran,
                   runDone, calls, epochAt1, resetsBegun, resetsAtEnq, tagOf,
                   inQueueAtReset, putDone, pendingStale, staleDone>>

\* if state == self.state:  (line 109)
LoopCheck2 ==
    /\ wpc = "check2"
    /\ epochAt2' = [epochAt2 EXCEPT ![witem.job] = state]
    /\ IF witem.state = state
          THEN wpc' = "call" /\ UNCHANGED finished
          ELSE wpc' = "get" /\ finished' = finished \cup {witem.job}
    /\ UNCHANGED notRunner
    /\ UNCHANGED <<state, queue, callerVars, witem, output, procVars, ran,
                   runDone, calls, epochAt1, resetsBegun, resetsAtEnq, tagOf,
                   inQueueAtReset, putDone, pendingStale, staleDone>>

\* callback(*args, output)
LoopCall ==
    /\ wpc = "call"
    /\ calls' = Append(calls, [job |-> witem.job, args |-> ArgsOf(witem.job),
                               output |-> output,
                               late |-> witem.job \in staleDone])
    /\ finished' = finished \cup {witem.job}
    /\ wpc' = "get"
    /\ UNCHANGED notRunner
    /\ UNCHANGED <<state, queue, callerVars, witem, output, procVars, ran,
                   runDone, epochAt1, epochAt2, resetsBegun, resetsAtEnq, tagOf,
                   inQueueAtReset, putDone, pendingStale, staleDone>>

NextRunner ==
    \/ \E c \in Callers : EnqueueRead(c)
    \/ \E c \in Callers : EnqueuePut(c)
    \/ \E c \in Callers : ResetInc(c)
    \/ \E c \in Callers : ResetPut(c)
    \/ LoopGet
    \/ LoopCheck1
    \/ RunSpawn
    \/ RunRead
    \/ RunPoll
    \/ RunWait
    \/ ProcExit
    \/ LoopCheck2
    \/ LoopCall

(***************************************************************************)
(* Failures of run().  run() catches TimeoutExpired only and loop() has no *)
(* try statement: an exception raised by Popen or os.killpg leaves run()   *)
(* and loop(), and the worker thread ends.                                 *)
(***************************************************************************)
\* run(): get_subprocess() raises (getpwnam, setid or Popen: the working
\* directory is gone, fork fails).
RunSpawnFails ==
    /\ wpc = "spawn"
    /\ wpc' = "dead"
    /\ UNCHANGED notRunner
    /\ UNCHANGED <<state, queue, callerVars, witem, output, procVars, history>>

\* run(): os.killpg(process.pid, signal.SIGTERM) raises: the system refuses
\* the signal.
RunPollFails ==
    /\ wpc = "poll"
    /\ witem.job \in procAlive
    /\ wpc' = "dead"
    /\ UNCHANGED notRunner
    /\ UNCHANGED <<state, queue, callerVars, witem, output, procVars, history>>

\* run(): os.killpg(process.pid, signal.SIGKILL), in the handler of
\* TimeoutExpired, raises.
RunWaitFails ==
    /\ wpc = "wait"
    /\ witem.job \in procAlive
    /\ wpc' = "dead"
    /\ UNCHANGED notRunner
    /\ UNCHANGED <<state, queue, callerVars, witem, output, procVars, history>>

(***************************************************************************)
(* One call of run() in detail: get_output() and the two signals.  Time    *)
(* is counted in units of half the timeout, lengths in units of the        *)
(* largest chunk read1() may be short of.                                  *)
(***************************************************************************)
HalfTimeout == 1
OutputLimit == 3
ReadSize == 2

xproc == <<shell, kids, trap, pipeOpen>>
xsignals == <<xterm, xkill>>
notRun == <<rvars, mvars, pvars, svars, lvars, cvars, fvars, ivars, nvars, uvars>>

InitRun ==
    /\ xpc = "none"
    /\ xout = 0
    /\ xcap = -1
    /\ xend = "none"
    /\ xnow = 0
    /\ xendtime = 0
    /\ xwaitEnd = 0
    /\ xterm = -1
    /\ xkill = -1
    /\ xret = -1
    /\ shell = "none"
    /\ kids = FALSE
    /\ trap = FALSE
    /\ pipeOpen = FALSE

\* run(): process = self.get_subprocess(command); get_output(): output = b"",
\* end_time = time.monotonic() + self.timeout.
CmdSpawn(ignores) ==
    /\ xpc = "none"
    /\ xpc' = "while"
    /\ shell' = "running"
    /\ trap' = ignores
    /\ pipeOpen' = TRUE
    /\ xendtime' = xnow + 2 * HalfTimeout
    /\ UNCHANGED <<xout, xcap, xend, xnow, xwaitEnd, xsignals, xret, kids>>
    /\ UNCHANGED notRun

\* The read loop is left.
Break(why) ==
    /\ xpc' = "poll"
    /\ xcap' = xout
    /\ xend' = why

\* while len(output) <= self.output_limit: time_remaining = end_time -
\* time.monotonic(); if time_remaining < 0 ...: break
CmdWhile ==
    /\ xpc = "while"
    /\ IF xout > OutputLimit THEN Break("cap")
       ELSE IF xendtime - xnow < 0 THEN Break("timeout")
       ELSE xpc' = "select" /\ UNCHANGED <<xcap, xend>>
    /\ UNCHANGED <<xout, xnow, xendtime, xwaitEnd, xsignals, xret, xproc>>
    /\ UNCHANGED notRun

\* selector.select(time_remaining) returns nothing: the time is up.
CmdTimeout ==
    /\ xpc = "select"
    /\ xnow >= xendtime
    /\ Break("timeout")
    /\ UNCHANGED <<xout, xnow, xendtime, xwaitEnd, xsignals, xret, xproc>>
    /\ UNCHANGED notRun

\* select() reports stdout readable and read1(1024) returns n bytes.
CmdRead(n) ==
    /\ xpc = "select"
    /\ pipeOpen
    /\ xout' = xout + n
    /\ xpc' = "while"
    /\ UNCHANGED <<xcap, xend, xnow, xendtime, xwaitEnd, xsignals, xret, xproc>>
    /\ UNCHANGED notRun

\* select() reports stdout readable and read1(1024) returns b"": the end
\* of the output.
CmdEof ==
    /\ xpc = "select"
    /\ ~pipeOpen
    /\ Break("eof")
    /\ UNCHANGED <<xout, xnow, xendtime, xwaitEnd, xsignals, xret, xproc>>
    /\ UNCHANGED notRun

\* if process.poll() is None: os.killpg(process.pid, signal.SIGTERM); a
\* group that does not ignore the signal dies.  Then process.wait() begins.
CmdPoll ==
    /\ xpc = "poll"
    /\ IF shell = "running"
          THEN /\ xterm' = xnow
               /\ IF trap THEN UNCHANGED <<shell, kids, pipeOpen>>
                  ELSE shell' = "exited" /\ kids' = FALSE /\ pipeOpen' = FALSE
          ELSE UNCHANGED <<xterm, shell, kids, pipeOpen>>
    /\ xwaitEnd' = xnow + HalfTimeout
    /\ xpc' = "wait"
    /\ UNCHANGED <<xout, xcap, xend, xnow, xendtime, xkill, xret, trap>>
    /\ UNCHANGED notRun

\* process.wait(self.timeout / 2) returns: the shell has exited.
CmdWaitReturn ==
    /\ xpc = "wait"
    /\ shell = "exited"
    /\ xret' = xout
    /\ xpc' = "done"
    /\ UNCHANGED <<xout, xcap, xend, xnow, xendtime, xwaitEnd, xsignals, xproc>>
    /\ UNCHANGED notRun

\* The handler of TimeoutExpired entered without the wait.
CmdWaitExpiredEarly ==
    /\ xpc = "wait"
    /\ shell = "running"
    /\ xkill' = xnow
    /\ shell' = "exited"
    /\ kids' = FALSE
    /\ pipeOpen' = FALSE
    /\ xret' = xout
    /\ xpc' = "done"
    /\ UNCHANGED <<xout, xcap, xend, xnow, xendtime, xwaitEnd, xterm, trap>>
    /\ UNCHANGED notRun

\* process.wait(self.timeout / 2) raises TimeoutExpired: the handler sends
\* SIGKILL to the group, and run() returns the output.
CmdWaitExpired ==
    /\ xpc = "wait"
    /\ shell = "running"
    /\ xnow >= xwaitEnd
    /\ xkill' = xnow
    /\ shell' = "exited"
    /\ kids' = FALSE
    /\ pipeOpen' = FALSE
    /\ xret' = xout
    /\ xpc' = "done"
    /\ UNCHANGED <<xout, xcap, xend, xnow, xendtime, xwaitEnd, xterm, trap>>
    /\ UNCHANGED notRun

\* The shell starts a child in the background.
ShellFork ==
    /\ shell = "running"
    /\ ~kids
    /\ kids' = TRUE
    /\ UNCHANGED <<xpc, xout, xcap, xend, xnow, xendtime, xwaitEnd, xsignals,
                   xret, shell, trap, pipeOpen>>
    /\ UNCHANGED notRun

\* The shell exits by itself; stdout is at its end when no child is left.
ShellExit ==
    /\ shell = "running"
    /\ shell' = "exited"
    /\ pipeOpen' = (pipeOpen /\ kids)
    /\ UNCHANGED <<xpc, xout, xcap, xend, xnow, xendtime, xwaitEnd, xsignals,
                   xret, kids, trap>>
    /\ UNCHANGED notRun

\* The children exit by themselves.
KidsExit ==
    /\ kids
    /\ kids' = FALSE
    /\ pipeOpen' = (pipeOpen /\ shell = "running")
    /\ UNCHANGED <<xpc, xout, xcap, xend, xnow, xendtime, xwaitEnd, xsignals,
                   xret, shell, trap>>
    /\ UNCHANGED notRun

\* The processes of the group close or redirect their stdout.
PipeClose ==
    /\ pipeOpen
    /\ pipeOpen' = FALSE
    /\ UNCHANGED <<xpc, xout, xcap, xend, xnow, xendtime, xwaitEnd, xsignals,
                   xret, shell, kids, trap>>
    /\ UNCHANGED notRun

\* Time passes, until the read phase and the wait are over at the latest.
CmdTick ==
    /\ xpc \notin {"none", "done"}
    /\ xnow < 3 * HalfTimeout + 1
    /\ xnow' = xnow + 1
    /\ UNCHANGED <<xpc, xout, xcap, xend, xendtime, xwaitEnd, xsignals, xret,
                   xproc>>
    /\ UNCHANGED notRun

NextRun ==
    \/ \E ignores \in BOOLEAN : CmdSpawn(ignores)
    \/ CmdWhile
    \/ CmdTimeout
    \/ \E n \in 1..ReadSize : CmdRead(n)
    \/ CmdEof
    \/ CmdPoll
    \/ CmdWaitReturn
    \/ CmdWaitExpired
    \/ ShellFork
    \/ ShellExit
    \/ KidsExit
    \/ PipeClose
    \/ CmdTick

NextCrash ==
    \/ NextRunner
    \/ RunSpawnFails
    \/ RunPollFails
    \/ RunWaitFails

(***************************************************************************)
(* IRCBot.format (pyrcb.py).  A string is a sequence of symbols: " ", ":", *)
(* "TAB", "LF" and "CR" are single characters ("CR" stands for NUL as      *)
(* well), "@" is a character that is neither a letter nor a digit, and any *)
(* other symbol stands for a run of letters and digits.                    *)
(***************************************************************************)
Newlines == {"LF", "CR"}
NotAlnum == {" ", ":", "TAB", "@"} \cup Newlines

\* s without the line feed that ends it, if one does: where "$" matches.
BeforeDollar(s) ==
    IF s # <<>> /\ s[Len(s)] = "LF" THEN SubSeq(s, 1, Len(s) - 1) ELSE s

NoneIn(s, S) == \A i \in 1..Len(s) : s[i] \notin S

\* re.match(r"^[a-zA-Z0-9]+$", command)
CommandMatches(command) ==
    BeforeDollar(command) # <<>> /\ NoneIn(BeforeDollar(command), NotAlnum)

\* re.match(r"^[^\0\r\n]+$", arg)
ArgMatches(arg) ==
    BeforeDollar(arg) # <<>> /\ NoneIn(BeforeDollar(arg), Newlines)

\* format(), lines 643-652: the checks that raise ValueError.
FormatRaises(command, args) ==
    \/ command = <<>>
    \/ \E i \in 1..Len(args) : args[i] = <<>>
    \/ ~CommandMatches(command)
    \/ \E i \in 1..Len(args) : ~ArgMatches(args[i])
    \/ \E i \in 1..(Len(args) - 1) : args[i][1] = ":"
    \/ \E i \in 1..(Len(args) - 1) : " " \in {args[i][k] : k \in 1..Len(args[i])}

\* " ".join(parts)
RECURSIVE Join(_)
Join(parts) ==
    IF parts = <<>> THEN <<>>
    ELSE IF Len(parts) = 1 THEN parts[1]
    ELSE parts[1] \o <<" ">> \o Join(Tail(parts))

\* format(), lines 653-655: ":" is put before the last argument.
WithColon(args) ==
    IF args = <<>> THEN args
    ELSE [args EXCEPT ![Len(args)] = <<":">> \o args[Len(args)]]

\* The line format() returns when it does not raise.
Format(command, args) == Join(<<command>> \o WithColon(args))

(***************************************************************************)
(* Flood control: IRCBot.add_delayed and IRCBot.delay_loop (pyrcb.py).     *)
(* Time is counted in units of 0.1 s.                                      *)
(***************************************************************************)
MaxSubmits == 2
MaxBurst == 17
MaxTicks == 1

\* self.delay_multiplier (0.1 s), self.max_delay (1.5 s) and
\* self.consecutive_timeout (5 s).
DelayMultiplier == 1
MaxDelay == 15
ConsecutiveTimeout == 50

\* Two targets (channels or nicknames).
Targets == {1, 2}
\* Two message texts, the first sorting before the second.
Texts == {1, 2}
\* The same and the empty message text, which sorts before them.
AllTexts == {0} \cup Texts
\* The message text as a string.
TextOf(x) == IF x = 0 THEN <<>> ELSE <<"x">>
\* format(command, [target, text]) of send_raw() does not raise.
TextValid(x) == ~FormatRaises(<<"x">>, <<(<<"x">>), TextOf(x)>>)
\* The target the burst of SpecThrottle is sent to.
BurstTargets == {1}
ClockSteps == {1, ConsecutiveTimeout, ConsecutiveTimeout + 1}

\* self.delay: flood control is on by default.
FloodControl == TRUE

NoEntry == [time |-> 0, target |-> 0, text |-> 0, id |-> 0]

NoCall == [target |-> 0, clock |-> 0, due |-> 0, consec |-> 0, prevDue |-> -1,
           prevConsec |-> -1, startDue |-> 0]

Min(a, b) == IF a <= b THEN a ELSE b
Max(a, b) == IF a >= b THEN a ELSE b

\* The greatest element of S.
Max2(S) == CHOOSE x \in S : \A y \in S : x >= y

InitSend ==
    /\ now = 0
    /\ ticks = 0
    /\ delay_buffer = <<>>
    /\ last_sent = [t \in Targets |-> <<0, 0>>]
    /\ delay_event = FALSE
    /\ alive = TRUE
    /\ dpc = "while"
    /\ dhead = NoEntry
    /\ apc = "idle"
    /\ acur = NoEntry
    /\ nsub = 0
    /\ wire = <<>>
    /\ deleted = <<>>
    /\ lastSub = NoCall
    /\ runLog = [t \in Targets |-> [due |-> -1, consec |-> -1, start |-> -1]]
    /\ delay = FloodControl
    /\ sendLog = <<>>

\* Python's order of the tuples (message_time, (command, [target, text])):
\* by time, then by the message itself.  The command is PRIVMSG throughout.
EntryLess(a, b) ==
    \/ a.time < b.time
    \/ a.time = b.time /\ a.target < b.target
    \/ a.time = b.time /\ a.target = b.target /\ a.text < b.text

\* bisect.insort: insert after the entries that are not greater.
Insort(buf, e) ==
    LET after == {i \in 1..Len(buf) : EntryLess(e, buf[i])}
        pos == IF after = {} THEN Len(buf) + 1
               ELSE CHOOSE i \in after : \A k \in after : i <= k
    IN  SubSeq(buf, 1, pos - 1) \o <<e>> \o SubSeq(buf, pos, Len(buf))

\* The count reset only when more than the timeout has passed.
ConsecutiveStrict(last_time, consecutive, clock) ==
    IF clock - last_time > ConsecutiveTimeout THEN 0 ELSE consecutive

\* if last_delta >= self.consecutive_timeout: consecutive = 0
Consecutive(last_time, consecutive, clock) ==
    IF clock - last_time >= ConsecutiveTimeout THEN 0 ELSE consecutive

\* The delay without the cap of self.max_delay.
DelayUncapped(consecutive) == consecutive * DelayMultiplier

\* delay = min(consecutive * self.delay_multiplier, self.max_delay)
Delay(consecutive) == Min(consecutive * DelayMultiplier, MaxDelay)

\* The due-time without the delay added.
MessageTimeNoDelay(last_time, clock, d) == Max(last_time, clock)

\* message_time = max(last_time, best_clock()) + delay
MessageTime(last_time, clock, d) == Max(last_time, clock) + d

\* add_delayed(), lines 734-741: the due-time and the throttle state.
AddCompute(t, x) ==
    /\ delay
    /\ apc = "idle"
    /\ LET last_time == last_sent[t][1]
           consecutive == Consecutive(last_time, last_sent[t][2], now)
           message_time == MessageTime(last_time, now, Delay(consecutive))
       IN  /\ last_sent' = [last_sent EXCEPT ![t] = <<message_time, consecutive + 1>>]
           /\ acur' = [time |-> message_time, target |-> t, text |-> x,
                       id |-> nsub + 1]
           /\ lastSub' = [target |-> t, clock |-> now, due |-> message_time,
                          consec |-> consecutive, prevDue |-> runLog[t].due,
                          prevConsec |-> runLog[t].consec,
                          startDue |-> IF consecutive = 0 THEN message_time
                                       ELSE runLog[t].start]
           /\ runLog' = [runLog EXCEPT ![t] =
                            [due |-> message_time, consec |-> consecutive,
                             start |-> IF consecutive = 0 THEN message_time
                                       ELSE runLog[t].start]]
    /\ nsub' = nsub + 1
    /\ sendLog' = Append(sendLog, [text |-> x, end |-> "pending"])
    /\ apc' = "insort"
    /\ UNCHANGED notSender
    /\ UNCHANGED <<now, ticks, delay_buffer, delay_event, alive, dpc, dhead,
                   wire, deleted>>

\* add_delayed(), line 743: insort(self._delay_buffer, ...)
AddInsort ==
    /\ apc = "insort"
    /\ delay_buffer' = Insort(delay_buffer, acur)
    /\ apc' = "set"
    /\ UNCHANGED notSend
    /\ UNCHANGED <<now, ticks, last_sent, delay_event, alive, dpc, dhead,
                   acur, nsub, wire, deleted, lastSub, runLog>>

\* add_delayed(), line 744: self.delay_event.set()
AddSet ==
    /\ apc = "set"
    /\ delay_event' = TRUE
    /\ apc' = "idle"
    /\ acur' = NoEntry
    /\ sendLog' = [sendLog EXCEPT ![acur.id].end = "returned"]
    /\ UNCHANGED notSender
    /\ UNCHANGED <<now, ticks, delay_buffer, last_sent, alive, dpc, dhead,
                   nsub, wire, deleted, lastSub, runLog>>

\* delay_loop(): while self.alive:
DelayWhile ==
    /\ dpc = "while"
    /\ dpc' = IF alive THEN "clear" ELSE "done"
    /\ UNCHANGED notSend
    /\ UNCHANGED <<now, ticks, delay_buffer, last_sent, delay_event, alive,
                   dhead, apc, acur, nsub, wire, deleted, lastSub, runLog>>

\* delay_loop(): self.delay_event.clear()
DelayClear ==
    /\ dpc = "clear"
    /\ delay_event' = FALSE
    /\ dpc' = "peek"
    /\ UNCHANGED notSend
    /\ UNCHANGED <<now, ticks, delay_buffer, last_sent, alive, dhead, apc,
                   acur, nsub, wire, deleted, lastSub, runLog>>

\* delay_loop(), lines 750-753 and 757: read the head and its delay.
DelayPeek ==
    /\ dpc = "peek"
    /\ IF delay_buffer # <<>>
          THEN /\ dhead' = Head(delay_buffer)
               /\ dpc' = IF Head(delay_buffer).time - now <= 0
                            THEN "send" ELSE "wait"
          ELSE /\ dpc' = "idle"
               /\ UNCHANGED dhead
    /\ UNCHANGED notSend
    /\ UNCHANGED <<now, ticks, delay_buffer, last_sent, delay_event, alive,
                   apc, acur, nsub, wire, deleted, lastSub, runLog>>

\* delay_loop(), line 757: self.delay_event.wait(timeout=delay) returns True
\* when the flag is set, and False when the delay has passed.
DelayWait ==
    /\ dpc = "wait"
    /\ \/ delay_event /\ dpc' = "while"
       \/ ~delay_event /\ now >= dhead.time /\ dpc' = "send"
    /\ UNCHANGED notSend
    /\ UNCHANGED <<now, ticks, delay_buffer, last_sent, delay_event, alive,
                   dhead, apc, acur, nsub, wire, deleted, lastSub, runLog>>

\* delay_loop(), line 761: self.delay_event.wait()
DelayIdle ==
    /\ dpc = "idle"
    /\ delay_event
    /\ dpc' = "while"
    /\ UNCHANGED notSend
    /\ UNCHANGED <<now, ticks, delay_buffer, last_sent, delay_event, alive,
                   dhead, apc, acur, nsub, wire, deleted, lastSub, runLog>>

\* delay_loop(), line 758: self.send_raw(command, args).  A ValueError of
\* format() ends the thread, and so does the error of a write on a closed
\* socket.
DelaySend ==
    /\ dpc = "send"
    /\ IF ~TextValid(dhead.text)
          THEN UNCHANGED wire /\ dpc' = "raised"
          ELSE IF alive
                  THEN wire' = Append(wire, dhead) /\ dpc' = "del"
                  ELSE UNCHANGED wire /\ dpc' = "done"
    /\ UNCHANGED notSend
    /\ UNCHANGED <<now, ticks, delay_buffer, last_sent, delay_event, alive,
                   dhead, apc, acur, nsub, deleted, lastSub, runLog>>

\* delay_loop(), line 759: del self._delay_buffer[0], an IndexError when
\* the buffer is empty.
DelayDel ==
    /\ dpc = "del"
    /\ IF delay_buffer = <<>>
          THEN /\ dpc' = "raised"
               /\ UNCHANGED <<deleted, delay_buffer, dhead>>
          ELSE /\ deleted' = Append(deleted, Head(delay_buffer).id)
               /\ delay_buffer' = Tail(delay_buffer)
               /\ dhead' = NoEntry
               /\ dpc' = "while"
    /\ UNCHANGED notSend
    /\ UNCHANGED <<now, ticks, last_sent, delay_event, alive, apc, acur,
                   nsub, wire, lastSub, runLog>>

\* send_raw(command, args) in the calling thread: format() raises ValueError
\* before anything is written, writeline() raises on a closed socket.
SendNow(t, x) ==
    /\ apc = "idle"
    /\ nsub' = nsub + 1
    /\ IF ~TextValid(x)
          THEN /\ sendLog' = Append(sendLog, [text |-> x, end |-> "raised"])
               /\ UNCHANGED wire
          ELSE IF alive
                  THEN /\ wire' = Append(wire, [time |-> now, target |-> t,
                                                text |-> x, id |-> nsub + 1])
                       /\ sendLog' = Append(sendLog,
                                            [text |-> x, end |-> "returned"])
                  ELSE /\ sendLog' = Append(sendLog,
                                            [text |-> x, end |-> "oserror"])
                       /\ UNCHANGED wire
    /\ UNCHANGED notSender
    /\ UNCHANGED <<now, ticks, delay_buffer, last_sent, delay_event, alive,
                   dpc, dhead, apc, acur, deleted, lastSub, runLog>>

\* add_delayed(), lines 730-732: without flood control the message is sent
\* at once.
AddDirect(t, x) == ~delay /\ SendNow(t, x)

\* send_raw("PRIVMSG", [target, text]) called by the program.
SendRaw(t, x) == SendNow(t, x)

\* close_socket(): self.alive = False; self.delay_event.set()
CloseSocket ==
    /\ alive
    /\ alive' = FALSE
    /\ delay_event' = TRUE
    /\ UNCHANGED notSend
    /\ UNCHANGED <<now, ticks, delay_buffer, last_sent, dpc, dhead, apc,
                   acur, nsub, wire, deleted, lastSub, runLog>>

\* connect() is called once more after the first session.
MaxConnects == 1

\* readline(): recv() returns the beginning of a line, which is kept in
\* self._buffer.
RecvPartial ==
    /\ alive
    /\ ~rbuffer
    /\ rbuffer' = TRUE
    /\ UNCHANGED <<self_nickname, channels, session, thread, subAt, wireAt,
                   revents, lastEv, rerror>>
    /\ UNCHANGED <<rvars, mvars, pvars, svars, lvars, xvars, fvars, ivars, nvars, uvars>>

\* connect() on a bot that was used before, called after close_socket() and
\* with no add_delayed() call in progress: _init_attributes(), then
\* self.alive = True and a new delay_loop() thread.  A delay_loop() thread
\* of the previous session that has not ended keeps its position and its
\* local variables; the call is taken here when that thread is not inside
\* a wait() of the previous delay_event.
Connect ==
    /\ ~alive
    /\ apc = "idle"
    /\ dpc \notin {"wait", "idle"}
    /\ session < MaxConnects
    /\ session' = session + 1
    /\ subAt' = nsub
    /\ wireAt' = Len(wire)
    /\ rbuffer' = FALSE
    /\ alive' = TRUE
    /\ is_registered' = FALSE
    /\ self_nickname' = <<>>
    /\ channels' = <<>>
    /\ names_buffer' = <<>>
    /\ nicklist' = <<>>
    /\ since' = <<>>
    /\ preAny' = <<>>
    /\ preOwn' = <<>>
    /\ delay_buffer' = <<>>
    /\ last_sent' = [t \in Targets |-> <<0, 0>>]
    /\ delay_event' = FALSE
    /\ listen_event' = FALSE
    /\ thread' = delay
    /\ UNCHANGED <<now, ticks, dpc, dhead, apc, acur, nsub, wire, deleted,
                   lastSub, runLog, delay, sendLog>>
    /\ UNCHANGED <<lpc, lline, nread, lerror, lhandled, hcalls, rawCalls, rpc,
                   rsent, lmode, cbCalls>>
    /\ UNCHANGED <<onNames, last366, nevents, revents, lastEv, rerror>>
    /\ UNCHANGED <<rvars, mvars, pvars, xvars, fvars, ivars, uvars>>

\* The delay_loop() thread that connect() started begins to run, here once
\* the thread of the previous session has ended.
DelayStart ==
    /\ thread
    /\ dpc \in {"done", "raised"}
    /\ thread' = FALSE
    /\ dpc' = "while"
    /\ dhead' = NoEntry
    /\ UNCHANGED <<self_nickname, channels, rbuffer, session, subAt, wireAt,
                   revents, lastEv, rerror>>
    /\ UNCHANGED <<now, ticks, delay_buffer, last_sent, delay_event, alive,
                   apc, acur, nsub, wire, deleted, lastSub, runLog, delay,
                   sendLog>>
    /\ UNCHANGED <<rvars, mvars, pvars, lvars, xvars, fvars, ivars, nvars, uvars>>

\* best_clock() advances.
Tick ==
    /\ ticks < MaxTicks
    /\ \E d \in ClockSteps : now' = now + d
    /\ ticks' = ticks + 1
    /\ UNCHANGED notSend
    /\ UNCHANGED <<delay_buffer, last_sent, delay_event, alive, dpc, dhead,
                   apc, acur, nsub, wire, deleted, lastSub, runLog>>

NextSend ==
    \/ \E t \in Targets, x \in Texts : nsub < MaxSubmits /\ AddCompute(t, x)
    \/ AddInsort
    \/ AddSet
    \/ DelayWhile
    \/ DelayClear
    \/ DelayPeek
    \/ DelayWait
    \/ DelayIdle
    \/ DelaySend
    \/ DelayDel
    \/ CloseSocket
    \/ Tick

\* The clock reaches the due-time that delay_loop() waits for at line 757.
WaitElapse ==
    /\ dpc = "wait"
    /\ ~delay_event
    /\ now < dhead.time
    /\ now' = dhead.time
    /\ UNCHANGED notSend
    /\ UNCHANGED <<ticks, delay_buffer, last_sent, delay_event, alive, dpc,
                   dhead, apc, acur, nsub, wire, deleted, lastSub, runLog>>

\* The steps of the delay_loop() thread.
DelayLoop ==
    \/ DelayWhile
    \/ DelayClear
    \/ DelayPeek
    \/ DelayWait
    \/ DelayIdle
    \/ DelaySend
    \/ DelayDel

\* Sends, the scheduler thread, the clock and close_socket().
NextTeardown ==
    \/ \E t \in Targets, x \in Texts : nsub < MaxSubmits /\ AddCompute(t, x)
    \/ AddInsort
    \/ AddSet
    \/ DelayLoop
    \/ WaitElapse
    \/ CloseSocket

\* Sends of any message text on a connection that stays alive.
NextDeliver ==
    \/ \E t \in Targets, x \in AllTexts : nsub < MaxSubmits /\ AddCompute(t, x)
    \/ AddInsort
    \/ AddSet
    \/ DelayLoop
    \/ WaitElapse

\* A session, close_socket() and a second session on the same bot.
NextReconnect ==
    \/ \E t \in BurstTargets, x \in Texts :
          nsub < MaxSubmits /\ AddCompute(t, x)
    \/ AddInsort
    \/ AddSet
    \/ DelayWhile
    \/ DelayClear
    \/ DelayPeek
    \/ DelayWait
    \/ DelayIdle
    \/ DelaySend
    \/ DelayDel
    \/ DelayStart
    \/ RecvPartial
    \/ CloseSocket
    \/ Connect

\* send() and send_raw() calls with any message text, with and without
\* flood control.
NextValidate ==
    \/ \E t \in Targets, x \in AllTexts : nsub < MaxSubmits /\ AddCompute(t, x)
    \/ \E t \in Targets, x \in AllTexts : nsub < MaxSubmits /\ AddDirect(t, x)
    \/ \E t \in BurstTargets, x \in AllTexts : nsub < MaxSubmits /\ SendRaw(t, x)
    \/ AddInsort
    \/ AddSet
    \/ DelayWhile
    \/ DelayClear
    \/ DelayPeek
    \/ DelayWait
    \/ DelayIdle
    \/ DelaySend
    \/ DelayDel
    \/ CloseSocket
    \/ Tick

\* A burst of add_delayed() calls to one target.
NextThrottle ==
    \/ \E t \in BurstTargets, x \in {1} : nsub < MaxBurst /\ AddCompute(t, x)
    \/ AddInsort
    \/ AddSet
    \/ Tick

(***************************************************************************)
(* The listen loop: IRCBot.listen, _listen, parse and _handle (pyrcb.py).  *)
(* A line is a sequence of symbols: ":", " ", "!" and "@" are the          *)
(* characters the grammar treats specially, any other symbol stands for a  *)
(* run of ordinary characters.                                             *)
(***************************************************************************)
MaxLines == 2
MaxLineLen == 5

\* The regular expression of parse() takes at most 14 middle arguments.
MaxMiddle == 14

Chars == {":", " ", "@", "JOIN", "001", "x"}

\* Python's None, as a handler argument.
PyNone == <<"None">>

MinOf(S) == CHOOSE x \in S : \A y \in S : x <= y

\* The least element of S, or d when S is empty.
MinOr(S, d) == IF S = {} THEN d ELSE MinOf(S)

\* The characters str.split() splits at.
Whitespace == {" ", "TAB", "LF", "CR"}

\* "." matches l[a..b]: no line feed is among them.
Dots(l, a, b) == \A k \in a..b : l[k] # "LF"

\* A space followed by the first character of a command.
IsGoodSpace(l, k) == k >= 1 /\ k < Len(l) /\ l[k] = " " /\ l[k + 1] # " "

GoodSpaces(l, from) == {k \in from..Len(l) : IsGoodSpace(l, k)}

\* (?:!(.*?))?@ at position p: the position of the "@" (0: no match).
GroupAt(l, p) ==
    IF p <= Len(l) /\ l[p] = "!"
       THEN MinOr({q \in (p + 1)..Len(l) :
                      l[q] = "@" /\ Dots(l, p + 1, q - 1)}, 0)
       ELSE IF p <= Len(l) /\ l[p] = "@" THEN p ELSE 0

\* (.*?)[ ] after the "@" at position at: the position of the closing space.
GroupSp(l, at) ==
    IF at = 0 THEN 0
    ELSE MinOr({k \in GoodSpaces(l, at + 1) : Dots(l, at + 1, k - 1)}, 0)

GroupOf(l, at) == [at |-> at, sp |-> GroupSp(l, at)]

\* The prefix with the nickname ending before position p and a user/host
\* part at p: (?:(?:!(.*?))?@(.*?))[ ] with its lazy quantifiers.
\* at: the position of "@"; sp: the position of the closing space (0: no match).
GroupMatch(l, p) == GroupOf(l, GroupAt(l, p))

NoPrefix ==
    [ok |-> FALSE, nick |-> <<>>, user |-> <<>>, host |-> <<>>, next |-> 1]

\* The groups of the prefix whose nickname ends before p, g being the match
\* of the user/host part at p.
PrefixGroups(l, p, g) ==
    IF g.sp # 0
       THEN [ok |-> TRUE, nick |-> SubSeq(l, 2, p - 1),
             user |-> IF l[p] = "!" THEN SubSeq(l, p + 1, g.at - 1) ELSE <<>>,
             host |-> SubSeq(l, g.at + 1, g.sp - 1),
             next |-> g.sp + 1]
       ELSE [ok |-> TRUE, nick |-> SubSeq(l, 2, p - 1),
             user |-> <<>>, host |-> <<>>, next |-> p + 1]

PrefixAt(l, p) ==
    IF l # <<>> /\ l[1] = ":" /\ p # 0
       THEN PrefixGroups(l, p, GroupMatch(l, p))
       ELSE NoPrefix

\* The prefix :nick[[!user]@host] followed by a space, as the regular
\* expression matches it: the shortest nickname for which the rest matches,
\* the user/host part being tried first.  ok = FALSE: the line has no prefix.
Prefix(l) ==
    PrefixAt(l, MinOr({p \in 2..Len(l) :
                          /\ Dots(l, 2, p - 1)
                          /\ GroupMatch(l, p).sp # 0 \/ IsGoodSpace(l, p)}, 0))

\* The end of the run of characters other than space that begins at i.
RunEnd(l, i) == MinOr({j \in i..Len(l) : l[j] = " "}, Len(l) + 1) - 1

\* A space that begins a middle argument: \ [^: ][^ ]*
IsArgStart(l, j) ==
    j + 1 <= Len(l) /\ l[j] = " " /\ l[j + 1] \notin {":", " "}

\* The k-th smallest element of a set of positions.
Kth(S, k) == CHOOSE x \in S : Cardinality({y \in S : y < x}) = k - 1

\* The first characters of the words of s.
WordStarts(s) ==
    {j \in 1..Len(s) :
        s[j] \notin Whitespace /\ (j = 1 \/ s[j - 1] \in Whitespace)}

\* The word of s that begins at j.
WordAt(s, j) ==
    SubSeq(s, j, MinOr({k \in j..Len(s) : s[k] \in Whitespace}, Len(s) + 1) - 1)

\* str.split(): the words of s.
Split(s) ==
    [k \in 1..Cardinality(WordStarts(s)) |-> WordAt(s, Kth(WordStarts(s), k))]

\* The group of the middle arguments, from the space at from up to next.
MiddleGroup(l, from, next) ==
    [args |-> Split(SubSeq(l, from, next - 1)), next |-> next]

\* The middle arguments that begin at the spaces starts, the first space
\* that begins none being at stop: at most MaxMiddle are taken, and
\* args.split() of parse() splits what was taken.
MiddleOf(l, starts, stop) ==
    MiddleGroup(l, MinOr(starts, stop),
                IF Cardinality(starts) > MaxMiddle
                   THEN Kth(starts, MaxMiddle + 1) ELSE stop)

MiddleUpTo(l, i, stop) ==
    MiddleOf(l, {j \in i..(stop - 1) : l[j] = " "}, stop)

\* ((?:\ [^: ][^ ]*){0,14}) from position i on: the arguments are taken
\* greedily, one per space that begins one, up to the first space that
\* begins none.
Middle(l, i) ==
    MiddleUpTo(l, i, MinOf({j \in i..(Len(l) + 1) :
                               j > Len(l) \/ (l[j] = " " /\ ~IsArgStart(l, j))}))

\* (.*) at position i: up to the first line feed.
DotStar(l, i) ==
    SubSeq(l, i, MinOr({k \in i..Len(l) : l[k] = "LF"}, Len(l) + 1) - 1)

\* (?:\ :?(.*))? at position i.
Trailing(l, i) ==
    IF i <= Len(l) /\ l[i] = " "
       THEN IF i + 1 <= Len(l) /\ l[i + 1] = ":"
               THEN DotStar(l, i + 2)
               ELSE DotStar(l, i + 1)
       ELSE <<>>

\* No command begins at position c.
NoCommandAt(l, c) == c > Len(l) \/ l[c] = " "

\* re.match(...) of parse() returns None: no command can be matched.
ParseFails(l) == NoCommandAt(l, Prefix(l).next)

\* parse(), lines 632-637: args = middle.split() + [trailing], the trailing
\* argument only if it is not empty.
ParseResult(pre, cmd, middle, trailing) ==
    [nick |-> pre.nick, user |-> pre.user, host |-> pre.host, cmd |-> cmd,
     args |-> IF trailing # <<>> THEN Append(middle, trailing) ELSE middle]

ParseMiddle(l, pre, cmd, mid) ==
    ParseResult(pre, cmd, mid.args, Trailing(l, mid.next))

ParseCommand(l, pre, e) ==
    ParseMiddle(l, pre, SubSeq(l, pre.next, e), Middle(l, e + 1))

ParsePrefix(l, pre) == ParseCommand(l, pre, RunEnd(l, pre.next))

\* IRCBot.parse: (nick, cmd, args) of a line the regular expression matches.
Parse(l) == ParsePrefix(l, Prefix(l))

\* self.events as _register_events() fills it, for the commands of Chars:
\* each handler with the number of its required positional parameters
\* (get_required_args) and whether it takes *args.
Events(cmd) ==
    IF cmd = <<"JOIN">>
       THEN <<[name |-> "_on_join", nargs |-> 2, var |-> FALSE]>>
    ELSE IF cmd = <<"001">>
       THEN <<[name |-> "_on_001_welcome", nargs |-> 2, var |-> TRUE]>>
    ELSE IF cmd = <<"433">>
       THEN <<[name |-> "_on_433_nicknameinuse", nargs |-> 0, var |-> TRUE]>>
    ELSE <<>>

Nones(n) == [i \in 1..n |-> PyNone]

\* given, filled with None up to nargs.
Fill(given, nargs) == given \o Nones(nargs - Len(given))

\* The handler arguments without the filling with None.
HandlerArgsNoFill(nickname, args, nargs) == <<nickname>> \o args

\* The handler arguments cut to the number the handler declares.
HandlerArgsCut(nickname, args, nargs) ==
    IF Len(args) + 1 > nargs THEN SubSeq(<<nickname>> \o args, 1, nargs)
    ELSE Fill(<<nickname>> \o args, nargs)

\* _handle(), lines 680-684: handler_args = [nickname] + args, filled with
\* None up to nargs.
HandlerArgs(nickname, args, nargs) == Fill(<<nickname>> \o args, nargs)

\* handler(*handler_args) raises TypeError unless the handler takes that
\* many positional arguments.
CallAccepted(h, n) == n = h.nargs \/ (h.var /\ n >= h.nargs)

\* What the body of a handler raises: _on_433_nicknameinuse raises
\* ValueError before the registration.
HandlerError(h, reg) ==
    IF h.name = "_on_433_nicknameinuse" /\ ~reg THEN "ValueError" ELSE "none"

CallOf(h, given, a, reg) ==
    [handler |-> h, given |-> given, args |-> a,
     ok |-> CallAccepted(h, Len(a)),
     error |-> IF ~CallAccepted(h, Len(a)) THEN "TypeError"
               ELSE HandlerError(h, reg)]

\* The call of handler h by _handle().
HandlerCall(h, nickname, args, reg) ==
    CallOf(h, <<nickname>> \o args, HandlerArgs(nickname, args, h.nargs), reg)

\* The calls of the loop of _handle(): up to the first one that raises.
HandlerCalls(hs, nickname, args, reg) ==
    [i \in 1..MinOr({k \in 1..Len(hs) :
                        HandlerCall(hs[k], nickname, args, reg).error # "none"},
                    Len(hs)) |->
        HandlerCall(hs[i], nickname, args, reg)]

\* The error that left the handler calls cs.
ErrorOf(cs) == IF cs = <<>> THEN "none" ELSE cs[Len(cs)].error

\* _on_001_welcome ran: self.is_registered = True
Welcomed(cs) ==
    \E i \in 1..Len(cs) :
        cs[i].handler.name = "_on_001_welcome" /\ cs[i].error = "none"

\* The outcome of _handle() with on_raw called only for a command that has
\* a handler.
OutcomeRawIfHandler(m, cs, reg) ==
    [hcalls |-> cs,
     rawCalls |-> IF ErrorOf(cs) # "none" \/ cs = <<>> THEN <<>>
                  ELSE <<[nick |-> m.nick, cmd |-> m.cmd, args |-> m.args]>>,
     lerror |-> ErrorOf(cs),
     registered |-> reg \/ Welcomed(cs)]

\* The outcome of _handle() for a parsed message m whose handler calls are cs:
\* on_raw is called unless a handler raised.
Outcome(m, cs, reg) ==
    [hcalls |-> cs,
     rawCalls |-> IF ErrorOf(cs) # "none" THEN <<>>
                  ELSE <<[nick |-> m.nick, cmd |-> m.cmd, args |-> m.args]>>,
     lerror |-> ErrorOf(cs),
     registered |-> reg \/ Welcomed(cs)]

Dispatch(m, reg) ==
    Outcome(m, HandlerCalls(Events(m.cmd), m.nick, m.args, reg), reg)

\* _handle(line): match is None makes match.groups("") raise AttributeError.
HandleLine(l, reg) ==
    IF ParseFails(l)
       THEN [hcalls |-> <<>>, rawCalls |-> <<>>, lerror |-> "AttributeError",
             registered |-> reg]
       ELSE Dispatch(Parse(l), reg)

\* The ways the listen loop is started: listen(), or listen_async(callback).
ListenModes == {"listen", "async"}

InitListen ==
    /\ lpc = "idle"
    /\ lline = <<>>
    /\ nread = 0
    /\ lerror = "none"
    /\ listen_event = FALSE
    /\ lhandled = FALSE
    /\ hcalls = <<>>
    /\ rawCalls = <<>>
    /\ is_registered = FALSE
    /\ rpc = "idle"
    /\ rsent = <<>>
    /\ lmode = "none"
    /\ cbCalls = 0

\* What the steps of the listen loop leave alone.
listenFrame == <<notListen, is_registered, rpc, rsent, lmode, cbCalls>>

\* listen() is called, or the thread of listen_async(callback) starts.
ListenCall(m) ==
    /\ lpc = "idle"
    /\ rpc \in {"idle", "returned"}
    /\ lpc' = "read"
    /\ lmode' = m
    /\ UNCHANGED notListen
    /\ UNCHANGED <<alive, delay_event, lline, nread, lerror, listen_event,
                   lhandled, hcalls, rawCalls, is_registered, rpc, rsent,
                   cbCalls>>

\* readline(): recv() returns more of the line, which joins the buffer.
ListenRecv(c) ==
    /\ lpc = "read"
    /\ nread < MaxLines
    /\ Len(lline) < MaxLineLen
    /\ lline' = Append(lline, c)
    /\ UNCHANGED listenFrame
    /\ UNCHANGED <<alive, delay_event, lpc, nread, lerror, listen_event,
                   lhandled, hcalls, rawCalls>>

\* readline(): the buffer holds "\r\n"; _listen() has the line before it.
ListenRead ==
    /\ lpc = "read"
    /\ nread < MaxLines
    /\ lline' = lline
    /\ nread' = nread + 1
    /\ lpc' = "handle"
    /\ UNCHANGED listenFrame
    /\ UNCHANGED <<alive, delay_event, lerror, listen_event, lhandled, hcalls,
                   rawCalls>>

\* _listen(): readline() returns None at the end of the stream, or raises a
\* socket error that catch_socket_error() accepts: _listen() returns.
ListenEnd ==
    /\ lpc = "read"
    /\ lpc' = "finally"
    /\ lline' = <<>>
    /\ UNCHANGED listenFrame
    /\ UNCHANGED <<alive, delay_event, nread, lerror, listen_event,
                   lhandled, hcalls, rawCalls>>

\* _listen(): readline() raises a socket error that catch_socket_error()
\* does not accept: it is raised again.
ListenFail ==
    /\ lpc = "read"
    /\ lpc' = "finally"
    /\ lline' = <<>>
    /\ lerror' = "OSError"
    /\ UNCHANGED listenFrame
    /\ UNCHANGED <<alive, delay_event, nread, listen_event, lhandled, hcalls,
                   rawCalls>>

\* _handle(line): parse, call the handlers of the command, call on_raw.
\* An exception leaves _handle() and _listen().
Handle ==
    /\ lpc = "handle"
    /\ \E r \in {HandleLine(lline, is_registered)} :
          /\ hcalls' = r.hcalls
          /\ rawCalls' = r.rawCalls
          /\ lerror' = r.lerror
          /\ is_registered' = r.registered
          /\ lpc' = IF r.lerror = "none" THEN "loop" ELSE "finally"
    /\ lhandled' = TRUE
    /\ UNCHANGED notListen
    /\ UNCHANGED <<alive, delay_event, lline, nread, listen_event, rpc, rsent,
                   lmode, cbCalls>>

\* _listen(): while True: the next iteration begins.
ListenLoop ==
    /\ lpc = "loop"
    /\ lpc' = "read"
    /\ lline' = <<>>
    /\ lhandled' = FALSE
    /\ hcalls' = <<>>
    /\ rawCalls' = <<>>
    /\ UNCHANGED listenFrame
    /\ UNCHANGED <<alive, delay_event, nread, lerror, listen_event>>

\* The end of the listen loop without the call of the callback.
ListenFinallyNoCallback ==
    /\ lpc = "finally"
    /\ alive' = FALSE
    /\ delay_event' = TRUE
    /\ listen_event' = TRUE
    /\ lpc' = IF lerror = "none" THEN "returned" ELSE "raised"
    /\ UNCHANGED notListen
    /\ UNCHANGED <<lline, nread, lerror, lhandled, hcalls, rawCalls,
                   is_registered, rpc, rsent, lmode, cbCalls>>

\* listen(): finally: self.close_socket(); self.listen_event.set()
\* listen_async(): finally: self.close_socket(); callback();
\* self.listen_event.set()
ListenFinally ==
    /\ lpc = "finally"
    /\ alive' = FALSE
    /\ delay_event' = TRUE
    /\ cbCalls' = IF lmode = "async" THEN cbCalls + 1 ELSE cbCalls
    /\ listen_event' = TRUE
    /\ lpc' = IF lerror = "none" THEN "returned" ELSE "raised"
    /\ UNCHANGED notListen
    /\ UNCHANGED <<lline, nread, lerror, lhandled, hcalls, rawCalls,
                   is_registered, rpc, rsent, lmode>>

NextListen ==
    \/ \E m \in ListenModes : ListenCall(m)
    \/ \E c \in Chars : ListenRecv(c)
    \/ ListenRead
    \/ ListenEnd
    \/ ListenFail
    \/ Handle
    \/ ListenLoop
    \/ ListenFinally

\* The characters of the lines the server sends during the registration.
RegChars == {":", " ", "001", "433", "x"}

\* register(): the USER and NICK commands are written.
RegisterCall ==
    /\ rpc = "idle"
    /\ lpc = "idle"
    /\ rsent' = <<"USER", "NICK">>
    /\ rpc' = "while"
    /\ UNCHANGED notListen
    /\ UNCHANGED <<alive, delay_event, lpc, lline, nread, lerror,
                   listen_event, lhandled, hcalls, rawCalls, is_registered,
                   lmode, cbCalls>>

\* register(): while not self.is_registered:
RegisterWhile ==
    /\ rpc = "while"
    /\ rpc' = IF is_registered THEN "returned" ELSE "read"
    /\ lline' = <<>>
    /\ lhandled' = FALSE
    /\ hcalls' = <<>>
    /\ rawCalls' = <<>>
    /\ UNCHANGED notListen
    /\ UNCHANGED <<alive, delay_event, lpc, nread, lerror, listen_event,
                   is_registered, rsent, lmode, cbCalls>>

\* readline() inside register(): recv() returns more of the line.
RegisterRecv(c) ==
    /\ rpc = "read"
    /\ nread < MaxLines
    /\ Len(lline) < MaxLineLen
    /\ lline' = Append(lline, c)
    /\ UNCHANGED notListen
    /\ UNCHANGED <<alive, delay_event, lpc, nread, lerror, listen_event,
                   lhandled, hcalls, rawCalls, is_registered, rpc, rsent,
                   lmode, cbCalls>>

\* readline() inside register() returns a line.
RegisterRead ==
    /\ rpc = "read"
    /\ nread < MaxLines
    /\ nread' = nread + 1
    /\ rpc' = "handle"
    /\ UNCHANGED notListen
    /\ UNCHANGED <<alive, delay_event, lpc, lline, lerror, listen_event,
                   lhandled, hcalls, rawCalls, is_registered, rsent, lmode,
                   cbCalls>>

\* register(): line is None: raise IOError("Lost connection to the server.")
RegisterEnd ==
    /\ rpc = "read"
    /\ rpc' = "raised"
    /\ lline' = <<>>
    /\ lerror' = "IOError"
    /\ UNCHANGED notListen
    /\ UNCHANGED <<alive, delay_event, lpc, nread, listen_event, lhandled,
                   hcalls, rawCalls, is_registered, rsent, lmode, cbCalls>>

\* register(): self._handle(line); an exception leaves register().
RegisterHandle ==
    /\ rpc = "handle"
    /\ \E r \in {HandleLine(lline, is_registered)} :
          /\ hcalls' = r.hcalls
          /\ rawCalls' = r.rawCalls
          /\ lerror' = r.lerror
          /\ is_registered' = r.registered
          /\ rpc' = IF r.lerror = "none" THEN "while" ELSE "raised"
    /\ lhandled' = TRUE
    /\ UNCHANGED notListen
    /\ UNCHANGED <<alive, delay_event, lpc, lline, nread, listen_event, rsent,
                   lmode, cbCalls>>

\* register(nickname), followed by listen().
NextRegister ==
    \/ RegisterCall
    \/ RegisterWhile
    \/ \E c \in RegChars : RegisterRecv(c)
    \/ RegisterRead
    \/ RegisterEnd
    \/ RegisterHandle
    \/ \E m \in {"listen"} : rpc = "returned" /\ ListenCall(m)
    \/ \E c \in RegChars : ListenRecv(c)
    \/ ListenRead
    \/ ListenEnd
    \/ Handle
    \/ ListenLoop
    \/ ListenFinally

(***************************************************************************)
(* Calls of IRCBot.format, and of IRCBot.parse on the line it returns.     *)
(***************************************************************************)
MaxArgs == 2
MaxLongArgs == 16

FmtChars == {"x", " ", ":", "TAB", "LF", "CR"}

\* The strings of at most two characters.
FmtStrings ==
    {<<>>} \cup {<<a>> : a \in FmtChars}
           \cup {<<a, b>> : a \in FmtChars, b \in FmtChars}

\* Commands: empty, alphanumeric, not alphanumeric, ending in a line feed,
\* containing a space.
FmtCommands == {<<>>, <<"x">>, <<"@">>, <<"x", "LF">>, <<"x", " ">>}

\* The argument lists of at most MaxArgs strings, and the lists of up to
\* MaxLongArgs one-word arguments.
FmtArgLists ==
    UNION {[1..n -> FmtStrings] : n \in 0..MaxArgs}
        \cup {[i \in 1..n |-> <<"x">>] : n \in 0..MaxLongArgs}

NoLine == [state |-> "none", line |-> <<>>]
NoMessage == [state |-> "none", cmd |-> <<>>, args |-> <<>>]

\* IRCBot.format(command, args) is called.
FormatCall(command, args) ==
    /\ fres.state = "none"
    /\ fcmd' = command
    /\ fargs' = args
    /\ fres' = IF FormatRaises(command, args)
                  THEN [state |-> "raised", line |-> <<>>]
                  ELSE [state |-> "line", line |-> Format(command, args)]
    /\ UNCHANGED <<rvars, mvars, pvars, svars, lvars, cvars, xvars, ivars, nvars, uvars, pres>>

\* IRCBot.parse(line) is called with the line format() returned.
ParseCall ==
    /\ fres.state = "line"
    /\ pres.state = "none"
    /\ pres' = IF ParseFails(fres.line)
                  THEN [state |-> "raised", cmd |-> <<>>, args |-> <<>>]
                  ELSE [state |-> "parsed", cmd |-> Parse(fres.line).cmd,
                        args |-> Parse(fres.line).args]
    /\ UNCHANGED <<rvars, mvars, pvars, svars, lvars, cvars, xvars, ivars, nvars, uvars, fcmd, fargs, fres>>

\* format() is called once, with any command and argument list.
FormatCallAny ==
    /\ fres.state = "none"
    /\ \E command \in FmtCommands, args \in FmtArgLists :
          FormatCall(command, args)

NextFormat == FormatCallAny \/ ParseCall

(***************************************************************************)
(* IStr: case-insensitive strings.  A string is a sequence of characters;  *)
(* str.lower() and str.upper() act on the letters below and leave every    *)
(* other character alone.                                                  *)
(***************************************************************************)
UpperLetters == <<"A", "G", "I", "N", "R", "S", "T">>
LowerLetters == <<"a", "g", "i", "n", "r", "s", "t">>

\* The counterpart of character c in sequence to, if c is in from.
Replace(c, from, to) ==
    IF \E k \in 1..Len(from) : from[k] = c
        THEN to[CHOOSE k \in 1..Len(from) : from[k] = c]
        ELSE c

\* make_lower without the replacement of []\~.
MakeLowerAscii(string) ==
    [k \in 1..Len(string) |-> Replace(string[k], UpperLetters, LowerLetters)]

\* IStr.make_lower: lower(), then []\~ are replaced by {}|^.
MakeLower(string) ==
    [k \in 1..Len(string) |->
        Replace(Replace(string[k], UpperLetters, LowerLetters),
                <<"[", "]", "\\", "~">>, <<"{", "}", "|", "^">>)]

\* IStr.make_upper: upper(), then {}|^ are replaced by []\~.
MakeUpper(string) ==
    [k \in 1..Len(string) |->
        Replace(Replace(string[k], LowerLetters, UpperLetters),
                <<"{", "}", "|", "^">>, <<"[", "]", "\\", "~">>)]

\* A plain string, and IStr(string): the text is kept, _lower and _upper
\* are computed once.
Str(string) == [istr |-> FALSE, s |-> string, lower |-> <<>>, upper |-> <<>>]
IStrNew(string) ==
    [istr |-> TRUE, s |-> string,
     lower |-> MakeLower(string), upper |-> MakeUpper(string)]

\* The comparison by the text alone.
EqText(x, y) == x.s = y.s

\* x == y.  IStr.__eq__ lowers its argument and compares it with _lower;
\* with a plain string on the left and an IStr on the right Python calls
\* the method of the IStr, a subclass of str, first.
Eq(x, y) ==
    IF x.istr THEN x.lower = MakeLower(y.s)
    ELSE IF y.istr THEN y.lower = MakeLower(x.s)
    ELSE x.s = y.s

\* hash(x), as the string that is hashed: _lower for an IStr, the text for
\* a plain string.
Hash(x) == IF x.istr THEN x.lower ELSE x.s

IStrTexts ==
    {<<>>, <<"A">>, <<"a">>, <<"[">>, <<"{">>, <<"]">>, <<"}">>,
     <<"\\">>, <<"|">>, <<"~">>, <<"^">>, <<"a", "[">>, <<"A", "{">>,
     <<"S", "T", "R", "i", "n", "g", "^">>,
     <<"s", "t", "r", "i", "n", "g", "}">>,
     <<"s", "t", "r", "i", "n", "g", "^">>,
     <<"S", "T", "R", "I", "N", "G", "~">>}

IStrValues == {Str(t) : t \in IStrTexts} \cup {IStrNew(t) : t \in IStrTexts}

\* Three values are made.
IStrMake(a, b, c) ==
    /\ icmp.state = "none"
    /\ ia' = a
    /\ ib' = b
    /\ ic' = c
    /\ icmp' = [icmp EXCEPT !.state = "made", !.given = <<a.s, b.s, c.s>>]
    /\ UNCHANGED <<rvars, mvars, pvars, svars, lvars, cvars, xvars, fvars, nvars, uvars>>

\* They are compared with == and hashed; no method of IStr assigns to the
\* object.
IStrCompare ==
    /\ icmp.state = "made"
    /\ icmp' = [icmp EXCEPT !.state = "done",
                            !.ab = Eq(ia, ib), !.ba = Eq(ib, ia),
                            !.bc = Eq(ib, ic), !.ac = Eq(ia, ic),
                            !.aa = Eq(ia, ia),
                            !.ha = Hash(ia), !.hb = Hash(ib)]
    /\ UNCHANGED <<ia, ib, ic>>
    /\ UNCHANGED <<rvars, mvars, pvars, svars, lvars, cvars, xvars, fvars, nvars, uvars>>

\* Any three values are made, once.
IStrMakeAny ==
    /\ icmp.state = "none"
    /\ \E a \in IStrValues, b \in IStrValues, c \in IStrValues :
          IStrMake(a, b, c)

NextIStr == IStrMakeAny \/ IStrCompare

(***************************************************************************)
(* The NAMES replies 353 and 366.  An IDefaultDict is a sequence of        *)
(* entries [key, value] in insertion order whose keys are compared as      *)
(* IStr.                                                                   *)
(***************************************************************************)
MaxNamesEvents == 3

NamesChannels == {<<"#", "a">>, <<"#", "A">>, <<"#", "g">>}

NamesLines ==
    {<<>>, <<"a">>, <<"@", "a", " ", "+", "G">>,
     <<"+", "@", "G", " ", " ", "a", "+">>}

\* The positions of the entries of d with key k: at most one.
KeyIndex(d, k) == {i \in 1..Len(d) : MakeLower(d[i].key) = MakeLower(k)}

\* k in d
DictHas(d, k) == KeyIndex(d, k) # {}

\* d[k] of a dictionary with default_factory list: the empty list for a
\* missing key.
DictGet(d, k) ==
    IF DictHas(d, k) THEN d[CHOOSE i \in KeyIndex(d, k) : TRUE].value ELSE <<>>

\* d[k] = v: an entry that exists keeps its key and its place.
DictSet(d, k, v) ==
    IF DictHas(d, k)
        THEN [i \in 1..Len(d) |->
                 IF i \in KeyIndex(d, k) THEN [key |-> d[i].key, value |-> v]
                                         ELSE d[i]]
        ELSE Append(d, [key |-> k, value |-> v])

\* d.update(other)
RECURSIVE Update(_, _)
Update(d, other) ==
    IF other = <<>> THEN d
    ELSE Update(DictSet(d, Head(other).key, Head(other).value), Tail(other))

\* n.lstrip("@+")
Lstrip(n) ==
    SubSeq(n, MinOr({k \in 1..Len(n) : n[k] \notin {"@", "+"}}, Len(n) + 1),
           Len(n))

\* [IStr(n.lstrip("@+")) for n in names.split()]
StripAll(names) == [k \in 1..Len(Split(names)) |-> Lstrip(Split(names)[k])]

\* The calls of on_names that _on_366_endofnames makes.
NamesCalls(buffer, channel) ==
    [i \in 1..Len(buffer) |-> [chan |-> buffer[i].key, names |-> buffer[i].value]]
        \o (IF DictHas(buffer, channel)
               THEN <<>>
               ELSE <<[chan |-> channel, names |-> <<>>]>>)

\* d with the value v for the key k, unless d has the key.
SetDefault(d, k, v) == IF DictHas(d, k) THEN d ELSE DictSet(d, k, v)

\* d without the key k.
DictDel(d, k) == SelectSeq(d, LAMBDA e : MakeLower(e.key) # MakeLower(k))

\* _on_353_namreply adding the names to the roster at once.
Names353Direct(channel, names) ==
    /\ nevents < MaxNamesEvents
    /\ nevents' = nevents + 1
    /\ nicklist' = DictSet(nicklist, channel,
                           DictGet(nicklist, channel) \o StripAll(names))
    /\ since' = Append(since, [channel |-> channel, names |-> names])
    /\ preAny' = SetDefault(preAny, channel, DictGet(nicklist, channel))
    /\ preOwn' = SetDefault(preOwn, channel, DictGet(nicklist, channel))
    /\ UNCHANGED <<names_buffer, onNames, last366>>
    /\ UNCHANGED <<rvars, mvars, pvars, svars, lvars, cvars, xvars, fvars, ivars, uvars>>

\* _on_353_namreply: the names of the reply are added to the buffer.
Names353(channel, names) ==
    /\ nevents < MaxNamesEvents
    /\ nevents' = nevents + 1
    /\ names_buffer' = DictSet(names_buffer, channel,
                               DictGet(names_buffer, channel) \o StripAll(names))
    /\ since' = Append(since, [channel |-> channel, names |-> names])
    /\ preAny' = SetDefault(preAny, channel, DictGet(nicklist, channel))
    /\ preOwn' = SetDefault(preOwn, channel, DictGet(nicklist, channel))
    /\ UNCHANGED <<nicklist, onNames, last366>>
    /\ UNCHANGED <<rvars, mvars, pvars, svars, lvars, cvars, xvars, fvars, ivars, uvars>>

\* _on_366_endofnames without the clearing of the buffer.
Names366Keep(channel) ==
    /\ nevents < MaxNamesEvents
    /\ nevents' = nevents + 1
    /\ nicklist' = Update(nicklist, names_buffer)
    /\ onNames' = NamesCalls(names_buffer, channel)
    /\ last366' = [state |-> "done", channel |-> channel, log |-> since]
    /\ since' = <<>>
    /\ preAny' = <<>>
    /\ preOwn' = DictDel(preOwn, channel)
    /\ UNCHANGED names_buffer
    /\ UNCHANGED <<rvars, mvars, pvars, svars, lvars, cvars, xvars, fvars, ivars, uvars>>

\* _on_366_endofnames: the buffer is committed to nicklist, on_names is
\* called for every channel of the buffer, and for the channel of the
\* reply if the buffer has none of its names, and the buffer is cleared.
Names366(channel) ==
    /\ nevents < MaxNamesEvents
    /\ nevents' = nevents + 1
    /\ nicklist' = Update(nicklist, names_buffer)
    /\ onNames' = NamesCalls(names_buffer, channel)
    /\ names_buffer' = <<>>
    /\ last366' = [state |-> "done", channel |-> channel, log |-> since]
    /\ since' = <<>>
    /\ preAny' = <<>>
    /\ preOwn' = DictDel(preOwn, channel)
    /\ UNCHANGED <<rvars, mvars, pvars, svars, lvars, cvars, xvars, fvars, ivars, uvars>>

NextNames ==
    \/ \E channel \in NamesChannels, names \in NamesLines :
          Names353(channel, names)
    \/ \E channel \in NamesChannels : Names366(channel)

(***************************************************************************)
(* The joined channels and the rosters: the handlers of JOIN, PART, KICK,  *)
(* QUIT, NICK and 001 and add_nickname, remove_nickname and                *)
(* replace_nickname (pyrcb.py).  The nicknames and channels of the events  *)
(* are IStr values, compared by their lowercase forms.                     *)
(***************************************************************************)
MaxRosterEvents == 3

RosterNicks == {<<"a">>, <<"A">>, <<"g">>}

\* No JOIN, PART, KICK, QUIT, NICK or 001 event (Python's None).
NoEvent ==
    [kind |-> "none", nick |-> <<>>, arg |-> <<>>, own |-> FALSE,
     channels |-> <<>>, nicklist |-> <<>>]

\* x == y, one of them an IStr.
IEq(x, y) == MakeLower(x) = MakeLower(y)

\* x in list
Contains(list, x) == \E i \in 1..Len(list) : IEq(list[i], x)

\* list.remove(x) of a list that contains x: the first occurrence goes.
Remove(list, x) ==
    [i \in 1..(Len(list) - 1) |->
        IF i < MinOf({k \in 1..Len(list) : IEq(list[k], x)})
            THEN list[i] ELSE list[i + 1]]

\* self.nickname, self.channels and self.nicklist.
Roster == [nickname |-> self_nickname, channels |-> channels,
           nicklist |-> nicklist, error |-> FALSE]

\* add_nickname(nickname, [channel])
AddNickname(st, nick, channel) ==
    [st EXCEPT
        !.channels = IF IEq(nick, st.nickname) THEN Append(@, channel) ELSE @,
        !.nicklist = DictSet(@, channel, Append(DictGet(@, channel), nick))]

\* self.nicklist[c] for c in chans: a missing key is created.
RECURSIVE Touch(_, _)
Touch(d, chans) ==
    IF chans = <<>> THEN d
    ELSE Touch(SetDefault(d, Head(chans), <<>>), Tail(chans))

\* remove_nickname(), the body of the loop for one pair: a nickname that the
\* roster no longer holds makes list.remove() raise ValueError.
RemoveOne(st, nick, channel) ==
    IF ~Contains(DictGet(st.nicklist, channel), nick)
        THEN [st EXCEPT
                 !.channels = IF IEq(nick, st.nickname) /\ Contains(@, channel)
                                 THEN Remove(@, channel) ELSE @,
                 !.error = TRUE]
        ELSE [st EXCEPT
                 !.channels = IF IEq(nick, st.nickname) /\ Contains(@, channel)
                                 THEN Remove(@, channel) ELSE @,
                 !.nicklist = DictSet(@, channel,
                                      Remove(DictGet(@, channel), nick))]

\* remove_nickname(), the loop over the pairs.
RECURSIVE RemoveLoop(_, _, _)
RemoveLoop(st, nick, pairs) ==
    IF pairs = <<>> \/ st.error THEN st
    ELSE RemoveLoop(RemoveOne(st, nick, Head(pairs)), nick, Tail(pairs))

\* remove_nickname(nickname, channels): the pairs are the channels whose
\* roster holds the nickname when the call begins.
RemoveNickname(st, nick, chans) ==
    RemoveLoop([st EXCEPT !.nicklist = Touch(@, chans)], nick,
               SelectSeq(chans,
                         LAMBDA c : Contains(DictGet(st.nicklist, c), nick)))

\* replace_nickname(), the body of the loop for one channel.
ReplaceOne(st, nick, new, channel) ==
    [st EXCEPT
        !.nickname = IF IEq(nick, @) THEN new ELSE @,
        !.nicklist =
            IF Contains(DictGet(@, channel), nick)
                THEN DictSet(@, channel,
                             Append(Remove(DictGet(@, channel), nick), new))
                ELSE SetDefault(@, channel, <<>>)]

\* replace_nickname(nickname, new_nickname): for channel in self.channels
RECURSIVE ReplaceLoop(_, _, _, _)
ReplaceLoop(st, nick, new, chans) ==
    IF chans = <<>> THEN st
    ELSE ReplaceLoop(ReplaceOne(st, nick, new, Head(chans)), nick, new,
                     Tail(chans))

ReplaceNickname(st, nick, new) == ReplaceLoop(st, nick, new, st.channels)

\* The event is recorded and the state its handler leaves is stored.
Handled(kind, nick, arg, st) ==
    /\ revents < MaxRosterEvents
    /\ ~rerror
    /\ revents' = revents + 1
    /\ lastEv' = [kind |-> kind, nick |-> nick, arg |-> arg,
                  own |-> IEq(nick, self_nickname),
                  channels |-> channels, nicklist |-> nicklist]
    /\ self_nickname' = st.nickname
    /\ channels' = st.channels
    /\ nicklist' = st.nicklist
    /\ rerror' = st.error
    /\ UNCHANGED <<names_buffer, onNames, since, last366, nevents, preAny,
                   preOwn>>
    /\ UNCHANGED <<rbuffer, session, thread, subAt, wireAt>>
    /\ UNCHANGED <<rvars, mvars, pvars, svars, xvars, fvars, ivars, uvars>>

\* _on_001_welcome(server, nickname)
Welcome(nick) ==
    /\ Handled("001", nick, <<>>, [Roster EXCEPT !.nickname = nick])
    /\ is_registered' = TRUE
    /\ UNCHANGED <<lpc, lline, nread, lerror, listen_event, lhandled, hcalls,
                   rawCalls, rpc, rsent, lmode, cbCalls>>

\* _on_join(nickname, channel)
OnJoin(nick, channel) ==
    /\ Handled("JOIN", nick, channel, AddNickname(Roster, nick, channel))
    /\ UNCHANGED lvars

\* _on_part(nickname, channel, message)
OnPart(nick, channel) ==
    /\ Handled("PART", nick, channel,
               RemoveNickname(Roster, nick, <<channel>>))
    /\ UNCHANGED lvars

\* _on_kick(nickname, channel, target, message)
OnKick(target, channel) ==
    /\ Handled("KICK", target, channel,
               RemoveNickname(Roster, target, <<channel>>))
    /\ UNCHANGED lvars

\* _on_quit(nickname, message)
OnQuit(nick) ==
    /\ Handled("QUIT", nick, <<>>, RemoveNickname(Roster, nick, channels))
    /\ UNCHANGED lvars

\* _on_nick(nickname, new_nickname)
OnNick(nick, new) ==
    /\ Handled("NICK", nick, new, ReplaceNickname(Roster, nick, new))
    /\ UNCHANGED lvars

NextRoster ==
    \/ \E nick \in RosterNicks : Welcome(nick)
    \/ \E nick \in RosterNicks, channel \in NamesChannels : OnJoin(nick, channel)
    \/ \E nick \in RosterNicks, channel \in NamesChannels : OnPart(nick, channel)
    \/ \E nick \in RosterNicks, channel \in NamesChannels : OnKick(nick, channel)
    \/ \E nick \in RosterNicks : OnQuit(nick)
    \/ \E nick \in RosterNicks, new \in RosterNicks : OnNick(nick, new)

(***************************************************************************)
(* IRCBot.split_string, split_once and split_nobreak (pyrcb.py).  A        *)
(* character is the sequence of the bytes of its UTF-8 encoding, a string  *)
(* a sequence of characters.                                               *)
(***************************************************************************)
MaxStrLen == 3
MaxBytelen == 4
MaxPieces == 6

\* "a", " ", "\t", a character of two bytes and one of three bytes.
SplitChars == {<<97>>, <<32>>, <<9>>, <<194, 167>>, <<226, 130, 172>>}

SplitStrings == UNION {[1..n -> SplitChars] : n \in 0..MaxStrLen}

\* c.isspace()
IsSpace(c) == c \in {<<32>>, <<9>>}

\* string.encode("utf8")
RECURSIVE Encode(_)
Encode(string) ==
    IF string = <<>> THEN <<>> ELSE Head(string) \o Encode(Tail(string))

\* The number of bytes of the character that byte b begins, 0 for a
\* continuation byte.
Width(b) ==
    IF b < 128 THEN 1
    ELSE IF b < 192 THEN 0
    ELSE IF b < 224 THEN 2
    ELSE IF b < 240 THEN 3 ELSE 4

\* bytes begins with a whole character.
StartsWithChar(bytes) ==
    /\ Width(bytes[1]) > 0
    /\ Width(bytes[1]) <= Len(bytes)
    /\ \A k \in 2..Width(bytes[1]) : Width(bytes[k]) = 0

\* bytes.decode("utf8") does not raise UnicodeDecodeError.
RECURSIVE Decodable(_)
Decodable(bytes) ==
    \/ bytes = <<>>
    \/ /\ StartsWithChar(bytes)
       /\ Decodable(SubSeq(bytes, Width(bytes[1]) + 1, Len(bytes)))

\* bytes.decode("utf8")
RECURSIVE Decode(_)
Decode(bytes) ==
    IF bytes = <<>> THEN <<>>
    ELSE <<SubSeq(bytes, 1, Width(bytes[1]))>>
             \o Decode(SubSeq(bytes, Width(bytes[1]) + 1, Len(bytes)))

\* What split_once and split_nobreak return or raise.
Pieces(split, rest) == [split |-> split, rest |-> rest, error |-> "none"]
Raised(error) == [split |-> <<>>, rest |-> <<>>, error |-> error]

\* split_once(), line 594: (split.decode("utf8"), rest.decode("utf8"))
Decoded(split, rest) ==
    IF Decodable(split) /\ Decodable(rest)
        THEN Pieces(Decode(split), Decode(rest))
        ELSE Raised("UnicodeDecodeError")

\* split_once(), lines 591-592: the position of the last byte of split that
\* is 0xc0 or more.
Start(split) == Max2({i \in 1..Len(split) : split[i] >= 192})

\* split_once(), lines 590-594: a character divided between split and rest
\* goes to rest.
Fixed(split, rest) ==
    IF split[Len(split)] >= 128 /\ rest[1] >= 128 /\ rest[1] <= 192
        THEN Decoded(SubSeq(split, 1, Start(split) - 1),
                     SubSeq(split, Start(split), Len(split)) \o rest)
        ELSE Decoded(split, rest)

\* split_once() without lines 590-593.
SplitOnceAtByte(string, bytelen) ==
    IF Len(Encode(string)) <= bytelen THEN Pieces(string, <<>>)
    ELSE Decoded(SubSeq(Encode(string), 1, bytelen),
                 SubSeq(Encode(string), bytelen + 1, Len(Encode(string))))

\* split_once(string, bytelen), bytelen positive.
SplitOnce(string, bytelen) ==
    IF Len(Encode(string)) <= bytelen THEN Pieces(string, <<>>)
    ELSE Fixed(SubSeq(Encode(string), 1, bytelen),
               SubSeq(Encode(string), bytelen + 1, Len(Encode(string))))

\* split_nobreak(), lines 610-614: one space between the pieces is removed;
\* split[-1] raises IndexError when split is empty.
Trimmed(split, rest) ==
    IF rest[1] = <<32>> THEN Pieces(split, Tail(rest))
    ELSE IF split = <<>> THEN Raised("IndexError")
    ELSE IF split[Len(split)] = <<32>>
        THEN Pieces(SubSeq(split, 1, Len(split) - 1), rest)
        ELSE Pieces(split, rest)

\* The positions of the whitespace of split.
Spaces(split) == {i \in 1..Len(split) : IsSpace(split[i])}

\* split_nobreak(), lines 604-614: a cut inside a word is moved back to the
\* last whitespace of split, if there is one.
AtSpace(split, rest) ==
    IF ~IsSpace(split[Len(split)]) /\ ~IsSpace(rest[1]) /\ Spaces(split) # {}
        THEN Trimmed(SubSeq(split, 1, Max2(Spaces(split)) - 1),
                     SubSeq(split, Max2(Spaces(split)), Len(split)) \o rest)
        ELSE Trimmed(split, rest)

\* split_nobreak(), lines 601-614, given what split_once() returned;
\* split[-1] at line 604 raises IndexError when split is empty.
Nobreak(r) ==
    IF r.error # "none" \/ r.rest = <<>> THEN r
    ELSE IF r.split = <<>> THEN Raised("IndexError")
    ELSE AtSpace(r.split, r.rest)

\* split_nobreak(string, bytelen)
SplitNobreak(string, bytelen) == Nobreak(SplitOnce(string, bytelen))

\* split_func(rest, bytelen)
SplitFunc(nobreak, string, bytelen) ==
    IF nobreak THEN SplitNobreak(string, bytelen)
    ELSE SplitOnce(string, bytelen)

\* split_string(string, bytelen, nobreak) is called, once being False.
SplitString(string, bytelen, nobreak) ==
    /\ spc = "none"
    /\ sstring' = string
    /\ sbytelen' = bytelen
    /\ snobreak' = nobreak
    /\ sresult' = <<>>
    /\ srest' = string
    /\ sprev' = string
    /\ spc' = "while"
    /\ UNCHANGED serror
    /\ UNCHANGED <<rvars, mvars, svars, lvars, cvars, xvars, fvars, ivars, nvars,
                   uvars>>

SplitStringAny ==
    /\ spc = "none"
    /\ \E string \in SplitStrings, bytelen \in 1..MaxBytelen,
          nobreak \in BOOLEAN : SplitString(string, bytelen, nobreak)

\* split_string(), lines 572-574: one iteration of the loop.
SplitIterate ==
    /\ spc = "while"
    /\ sresult = <<>> \/ srest # <<>>
    /\ Len(sresult) < MaxPieces
    /\ IF SplitFunc(snobreak, srest, sbytelen).error # "none"
          THEN /\ serror' = SplitFunc(snobreak, srest, sbytelen).error
               /\ spc' = "raised"
               /\ UNCHANGED <<sresult, srest, sprev>>
          ELSE /\ sresult' = Append(sresult,
                                    SplitFunc(snobreak, srest, sbytelen).split)
               /\ srest' = SplitFunc(snobreak, srest, sbytelen).rest
               /\ sprev' = srest
               /\ UNCHANGED <<spc, serror>>
    /\ UNCHANGED <<sstring, sbytelen, snobreak>>
    /\ UNCHANGED <<rvars, mvars, svars, lvars, cvars, xvars, fvars, ivars, nvars,
                   uvars>>

\* split_string(), lines 572 and 575: the loop ends, result is returned.
SplitReturn ==
    /\ spc = "while"
    /\ sresult # <<>> /\ srest = <<>>
    /\ spc' = "returned"
    /\ UNCHANGED <<sstring, sbytelen, snobreak, sresult, srest, sprev, serror>>
    /\ UNCHANGED <<rvars, mvars, svars, lvars, cvars, xvars, fvars, ivars, nvars,
                   uvars>>

NextSplit == SplitStringAny \/ SplitIterate \/ SplitReturn

(***************************************************************************)
(* Shellbot.command_done, remove_escape_codes and replace_tabs             *)
(* (shellbot.py).  The byte 27 is the escape character, "a" the letter.    *)
(***************************************************************************)
MaxOutputLines == 3

\* self.max_lines and safe_message_length(target), scaled down.
max_lines == 2
SafeMessageLength == 2

\* The lines of the output: empty, "a", "aaa", " ", " aaa", an escape code
\* alone, an escape code before "a", and a tab.
OutputLines ==
    {<<>>, <<(<<97>>)>>, <<(<<97>>), (<<97>>), (<<97>>)>>, <<(<<32>>)>>,
     <<(<<32>>), (<<97>>), (<<97>>), (<<97>>)>>,
     <<(<<27>>), (<<32>>), (<<97>>)>>,
     <<(<<27>>), (<<97>>), (<<97>>)>>, <<(<<9>>)>>}

Outputs == UNION {[1..n -> OutputLines] : n \in 0..MaxOutputLines}

\* The positions of the letters of string after its first character.
Letters(string) == {k \in 2..Len(string) : string[k] = <<97>>}

\* re.sub(r"\x1b.*?[a-zA-Z]", "", string): an escape character is removed
\* with what follows it up to the next letter, if there is one.
RECURSIVE RemoveEscapeCodes(_)
RemoveEscapeCodes(string) ==
    IF string = <<>> THEN <<>>
    ELSE IF Head(string) = <<27>> /\ Letters(string) # {}
        THEN RemoveEscapeCodes(SubSeq(string, MinOf(Letters(string)) + 1,
                                      Len(string)))
        ELSE <<Head(string)>> \o RemoveEscapeCodes(Tail(string))

\* " " * n
Blanks(n) == [k \in 1..n |-> <<32>>]

\* replace_tabs(): col is the length of the piece since the last tab.
RECURSIVE TabsFrom(_, _)
TabsFrom(string, col) ==
    IF string = <<>> THEN <<>>
    ELSE IF Head(string) = <<9>>
        THEN Blanks(8 - (col % 8)) \o TabsFrom(Tail(string), 0)
        ELSE <<Head(string)>> \o TabsFrom(Tail(string), col + 1)

ReplaceTabs(string) == TabsFrom(string, 0)

\* command_done(), lines 101-102: the lines without escape codes and tabs,
\* the empty ones removed.
Cleaned(lines) ==
    SelectSeq([k \in 1..Len(lines) |-> ReplaceTabs(RemoveEscapeCodes(lines[k]))],
              LAMBDA l : l # <<>>)

\* split_string(string, bytelen) with nobreak, for a string on which
\* split_nobreak() does not raise and shortens the rest.
RECURSIVE SplitRest(_, _)
SplitRest(rest, bytelen) ==
    IF SplitNobreak(rest, bytelen).rest = <<>>
           \/ SplitNobreak(rest, bytelen).rest = rest
        THEN <<SplitNobreak(rest, bytelen).split>>
        ELSE <<SplitNobreak(rest, bytelen).split>>
                 \o SplitRest(SplitNobreak(rest, bytelen).rest, bytelen)

\* command_done(), lines 106-109: split_lines
RECURSIVE SplitLines(_)
SplitLines(lines) ==
    IF lines = <<>> THEN <<>>
    ELSE SplitRest(Head(lines), SafeMessageLength) \o SplitLines(Tail(lines))

\* self.send(target, line) for the first self.max_lines of split_lines.
OutputSends(split_lines) ==
    [k \in 1..Min(Len(split_lines), max_lines) |->
        [kind |-> "output", text |-> split_lines[k]]]

\* command_done(), lines 115-118: if len(lines) > self.max_lines
TrimmedSends(lines) ==
    IF Len(lines) > max_lines
        THEN <<[kind |-> "trimmed", text |-> <<>>]>> ELSE <<>>

\* command_done(), lines 119-122: if not lines
NoOutputSends(lines) ==
    IF lines = <<>> THEN <<[kind |-> "no output", text |-> <<>>]>> ELSE <<>>

\* command_done(target, lines)
CommandDone(lines) ==
    /\ mpc = "none"
    /\ mlines' = lines
    /\ msent' = OutputSends(SplitLines(Cleaned(lines)))
                    \o TrimmedSends(Cleaned(lines))
                    \o NoOutputSends(Cleaned(lines))
    /\ mpc' = "returned"
    /\ UNCHANGED <<rvars, svars, lvars, cvars, pvars, xvars, fvars, ivars,
                   nvars, uvars>>

CommandDoneAny ==
    /\ mpc = "none"
    /\ \E lines \in Outputs : CommandDone(lines)

\* The next command is done.
CommandNext ==
    /\ mpc = "returned"
    /\ mpc' = "none"
    /\ UNCHANGED <<mlines, msent>>
    /\ UNCHANGED <<rvars, svars, lvars, cvars, pvars, xvars, fvars, ivars,
                   nvars, uvars>>

NextDone == CommandDoneAny \/ CommandNext

(***************************************************************************)
(* The run-as user of CommandRunner.get_subprocess.  Ids are 0..MaxId, 0   *)
(* is root.                                                                *)
(***************************************************************************)
MaxId == 3

Ids == 0..MaxId

IdPairs == [uid : Ids, gid : Ids]

\* os.setgid(id) and os.setuid(id) of a process with credentials c: root
\* may take any id, another user only the id it has.
SetGid(c, id) ==
    IF c.state = "running" /\ (c.uid = 0 \/ c.gid = id)
        THEN [c EXCEPT !.gid = id]
        ELSE [c EXCEPT !.state = "failed"]

SetUid(c, id) ==
    IF c.state = "running" /\ (c.uid = 0 \/ c.uid = id)
        THEN [c EXCEPT !.uid = id]
        ELSE [c EXCEPT !.state = "failed"]

\* The child process right after the fork.
Forked(sup) == [state |-> "running", uid |-> sup.uid, gid |-> sup.gid]

\* The function setid() returns: os.setgid(uid); os.setuid(gid).
Preexec(c, uid, gid) == SetUid(SetGid(c, uid), gid)

\* main(): with "-u" and not root it returns; as root without "-u" it
\* prints a warning and goes on.
Main(sup, user) ==
    /\ mainpc = "none"
    /\ supervisor' = sup
    /\ account' = [account EXCEPT !.user = user]
    /\ warned' = (~user /\ sup.uid = 0)
    /\ mainpc' = IF user /\ sup.uid # 0 THEN "returned" ELSE "started"
    /\ UNCHANGED cred
    /\ UNCHANGED <<rvars, mvars, pvars, svars, lvars, cvars, xvars, fvars, ivars, nvars>>

\* get_subprocess() with self.user set: setid() asserts that neither id
\* of the account is 0, and the child runs the function it returns before
\* the command.
GetSubprocess(acc) ==
    /\ mainpc = "started"
    /\ account.user
    /\ cred.state = "none"
    /\ account' = [user |-> TRUE, uid |-> acc.uid, gid |-> acc.gid]
    /\ cred' = IF acc.uid = 0 \/ acc.gid = 0
                  THEN [state |-> "refused", uid |-> 0, gid |-> 0]
                  ELSE Preexec(Forked(supervisor), acc.uid, acc.gid)
    /\ UNCHANGED <<mainpc, warned, supervisor>>
    /\ UNCHANGED <<rvars, mvars, pvars, svars, lvars, cvars, xvars, fvars, ivars, nvars>>

\* get_subprocess() with self.user unset: the child keeps the ids of
\* shellbot.
GetSubprocessSelf ==
    /\ mainpc = "started"
    /\ ~account.user
    /\ cred.state = "none"
    /\ cred' = Forked(supervisor)
    /\ UNCHANGED <<mainpc, warned, supervisor, account>>
    /\ UNCHANGED <<rvars, mvars, pvars, svars, lvars, cvars, xvars, fvars, ivars, nvars>>

\* The command ends.
SubprocessExit ==
    /\ cred.state = "running"
    /\ cred' = [cred EXCEPT !.state = "exited"]
    /\ UNCHANGED <<mainpc, warned, supervisor, account>>
    /\ UNCHANGED <<rvars, mvars, pvars, svars, lvars, cvars, xvars, fvars, ivars, nvars>>

NextSpawn ==
    \/ \E sup \in IdPairs, user \in BOOLEAN : Main(sup, user)
    \/ \E acc \in IdPairs : GetSubprocess(acc)
    \/ GetSubprocessSelf
    \/ SubprocessExit

\* No call of format(), no IStr, no NAMES reply and no spawn yet.
InitFormat == fcmd = <<>> /\ fargs = <<>> /\ fres = NoLine /\ pres = NoMessage

InitIStr ==
    /\ ia = Str(<<>>)
    /\ ib = Str(<<>>)
    /\ ic = Str(<<>>)
    /\ icmp = [state |-> "none", given |-> <<>>, ab |-> FALSE, ba |-> FALSE,
               bc |-> FALSE, ac |-> FALSE, aa |-> FALSE,
               ha |-> <<>>, hb |-> <<>>]

InitNames ==
    /\ names_buffer = <<>>
    /\ nicklist = <<>>
    /\ onNames = <<>>
    /\ since = <<>>
    /\ last366 = [state |-> "none", channel |-> <<>>, log |-> <<>>]
    /\ nevents = 0
    /\ preAny = <<>>
    /\ preOwn = <<>>

InitSpawn ==
    /\ mainpc = "none"
    /\ warned = FALSE
    /\ supervisor = [uid |-> 0, gid |-> 0]
    /\ account = [user |-> FALSE, uid |-> 0, gid |-> 0]
    /\ cred = [state |-> "none", uid |-> 0, gid |-> 0]

\* _init_attributes(), and no event handled yet.
InitSession ==
    /\ self_nickname = <<>>
    /\ channels = <<>>
    /\ rbuffer = FALSE
    /\ session = 0
    /\ thread = FALSE
    /\ subAt = 0
    /\ wireAt = 0
    /\ revents = 0
    /\ lastEv = NoEvent
    /\ rerror = FALSE

\* split_string() has not been called.
InitSplit ==
    /\ sstring = <<>>
    /\ sbytelen = 0
    /\ snobreak = FALSE
    /\ spc = "none"
    /\ sresult = <<>>
    /\ srest = <<>>
    /\ sprev = <<>>
    /\ serror = "none"

\* command_done() has not been called.
InitDone == mpc = "none" /\ mlines = <<>> /\ msent = <<>>

InitRest ==
    /\ InitFormat /\ InitIStr /\ InitNames /\ InitSpawn /\ InitRun
    /\ InitSession /\ InitSplit /\ InitDone

Init == InitRunner /\ InitSend /\ InitListen /\ InitRest

\* The bot constructed with delay=False: connect() starts no delay_loop()
\* thread.
InitDirect ==
    /\ InitRunner
    /\ InitListen
    /\ InitRest
    /\ now = 0
    /\ ticks = 0
    /\ delay_buffer = <<>>
    /\ last_sent = [t \in Targets |-> <<0, 0>>]
    /\ delay_event = FALSE
    /\ alive = TRUE
    /\ dpc = "off"
    /\ dhead = NoEntry
    /\ apc = "idle"
    /\ acur = NoEntry
    /\ nsub = 0
    /\ wire = <<>>
    /\ deleted = <<>>
    /\ lastSub = NoCall
    /\ runLog = [t \in Targets |-> [due |-> -1, consec |-> -1, start |-> -1]]
    /\ delay = FALSE
    /\ sendLog = <<>>

\* The bot constructed with or without flood control.
InitAnyDelay == Init \/ InitDirect

SpecValidate == InitAnyDelay /\ [][NextValidate]_vars

SpecListen == Init /\ [][NextListen]_vars

SpecRegister == Init /\ [][NextRegister]_vars

SpecFormat == Init /\ [][NextFormat]_vars

SpecIStr == Init /\ [][NextIStr]_vars

SpecNames == Init /\ [][NextNames]_vars

SpecSpawn == Init /\ [][NextSpawn]_vars

SpecRoster == Init /\ [][NextRoster]_vars

SpecReconnect == Init /\ [][NextReconnect]_vars

SpecSplit == Init /\ [][NextSplit]_vars

SpecDone == Init /\ [][NextDone]_vars

\* The scheduler thread and the calling thread are scheduled again and
\* again, and time passes.
SpecDeliver ==
    /\ Init /\ [][NextDeliver]_vars
    /\ WF_vars(DelayLoop) /\ WF_vars(WaitElapse) /\ WF_vars(AddInsort \/ AddSet)

\* The scheduler thread is scheduled again and again, and time passes.
SpecTeardown ==
    Init /\ [][NextTeardown]_vars /\ WF_vars(DelayLoop) /\ WF_vars(WaitElapse)

SpecRunner == Init /\ [][NextRunner]_vars

SpecCrash == Init /\ [][NextCrash]_vars

SpecRun == Init /\ [][NextRun]_vars

SpecSend == Init /\ [][NextSend]_vars

SpecThrottle == Init /\ [][NextThrottle]_vars

CalledJobs == {calls[i].job : i \in 1..Len(calls)}

(***************************************************************************)
(* Claims about the command runner, checked under SpecRunner.              *)
(***************************************************************************)

\* C1: at most one shell process spawned by the runner is alive at any time.
C1_AtMostOneProcess == Cardinality(procAlive) <= 1

\* C2: a job that is in the queue when reset() is called is never run and its
\* callback is never invoked; a job is skipped only if some reset() was called
\* after its enqueue() call began, so jobs enqueued after a reset() are not
\* invalidated by it.
C2_QueuedAtResetSkipped ==
    /\ \A j \in inQueueAtReset : j \notin ran /\ j \notin CalledJobs
    /\ \A j \in finished : j \notin ran => resetsAtEnq[j] < resetsBegun

\* A job queued at a reset() has been dequeued and skipped, and a job enqueued
\* after a reset() has run and had its callback invoked.
C2_Witness ==
    /\ \E j \in inQueueAtReset : j \in finished
    /\ \E k \in CalledJobs : resetsAtEnq[k] >= 1 /\ k \in ran

\* C3: the callback of a job is invoked at most once, with the job's callback
\* arguments followed by the output of that same job's run.
C3_CallbackOnceOwnOutput ==
    /\ \A i, k \in 1..Len(calls) : calls[i].job = calls[k].job => i = k
    /\ \A i \in 1..Len(calls) :
          /\ calls[i].args = ArgsOf(calls[i].job)
          /\ calls[i].output = OutputOf(calls[i].job)

\* A callback was invoked with its job's output, and another job was skipped.
C3_Witness ==
    /\ Len(calls) >= 1
    /\ \E j \in finished : j \notin CalledJobs

\* C4: once reset() has returned, no callback of a job enqueued before that
\* reset() is invoked.
C4_NoCallbackAfterReset == \A i \in 1..Len(calls) : ~calls[i].late

\* C5 as stated: a job dequeued with a matching epoch always gets its
\* callback, whatever reset() does while the command executes.
C5_DecidedAtDequeueOnly ==
    \A j \in finished : tagOf[j] = epochAt1[j] => j \in CalledJobs

\* C5 as the code has it: a job dequeued with a matching epoch runs its
\* command to completion whatever reset() does meanwhile, and its callback is
\* invoked exactly when the epoch matches at dequeue time and again after
\* run() has returned.
C5_DecidedAtDequeueAndAfterRun ==
    \A j \in finished :
        /\ tagOf[j] = epochAt1[j] => j \in runDone
        /\ j \in CalledJobs <=> (tagOf[j] = epochAt1[j] /\ tagOf[j] = epochAt2[j])

\* A job ran to completion while reset() was called, and lost its callback;
\* another one ran and got its callback.
C5_Witness ==
    /\ \E j \in finished : j \in runDone /\ j \notin CalledJobs
                           /\ epochAt2[j] > epochAt1[j]
    /\ \E k \in finished : k \in CalledJobs

(***************************************************************************)
(* Claims about flood control, checked under SpecSend and SpecThrottle.    *)
(***************************************************************************)

\* C6: two messages submitted to the same target are written to the socket
\* in the order of their submission.
C6_SameTargetInOrder ==
    \A i, j \in 1..Len(wire) :
        (i < j /\ wire[i].target = wire[j].target) => wire[i].id <= wire[j].id

\* Two messages to one target were written, the first of which sorts after
\* the second by its text.
C6_Witness ==
    \E i, j \in 1..Len(wire) :
        /\ i < j
        /\ wire[i].target = wire[j].target
        /\ wire[i].id < wire[j].id
        /\ wire[i].text > wire[j].text

\* C7: the scheduler loop removes from the delay buffer only entries it has
\* sent, and writes no buffered entry to the socket twice.
C7_LoopTolerant ==
    /\ \A k \in 1..Len(deleted) : \E i \in 1..Len(wire) : wire[i].id = deleted[k]
    /\ \A i, j \in 1..Len(wire) : wire[i].id = wire[j].id => i = j

\* C8 as stated: the due-time of the i-th consecutive call minus the due-time
\* of the first is min(i * 0.1, 1.5) seconds.
C8_DueRelativeToFirst ==
    lastSub.target # 0 =>
        lastSub.due - lastSub.startDue
            = Min(lastSub.consec * DelayMultiplier, MaxDelay)

\* C8 as the code has it: the due-times of consecutive calls to one target
\* do not decrease, the i-th consecutive call counts i, and its due-time is
\* min(i * 0.1, 1.5) seconds after the later of the previous due-time and
\* the clock at the call.
C8_DueRelativeToPrevious ==
    lastSub.target # 0 =>
        /\ lastSub.prevDue <= lastSub.due
        /\ lastSub.consec > 0 =>
              /\ lastSub.consec = lastSub.prevConsec + 1
              /\ lastSub.due = Max(lastSub.prevDue, lastSub.clock)
                                 + Min(lastSub.consec * DelayMultiplier, MaxDelay)
        /\ lastSub.consec = 0 => lastSub.due = lastSub.clock

\* A burst long enough for the cap to apply, with the clock advancing in it.
C8_Witness ==
    /\ lastSub.consec * DelayMultiplier > MaxDelay
    /\ lastSub.clock > 0
    /\ lastSub.due - lastSub.startDue > MaxDelay

(***************************************************************************)
(* Claims about the listen loop, checked under SpecListen.                 *)
(***************************************************************************)

\* C9 as stated: a handler without *args is called with exactly as many
\* arguments as it declares.
C9_ExactlyDeclared ==
    \A i \in 1..Len(hcalls) :
        ~hcalls[i].handler.var => Len(hcalls[i].args) = hcalls[i].handler.nargs

\* C9 as the code has it: every handler is called with the origin followed by
\* all the arguments of the message, filled with None up to the number the
\* handler declares when the message has fewer; nothing is cut, and a call
\* with more arguments than a handler without *args declares raises.
C9_FilledNeverCut ==
    \A i \in 1..Len(hcalls) :
        LET c == hcalls[i]
            n == Len(c.given)
        IN  /\ Len(c.args) = Max(n, c.handler.nargs)
            /\ SubSeq(c.args, 1, n) = c.given
            /\ \A k \in (n + 1)..Len(c.args) : c.args[k] = PyNone
            /\ (~c.handler.var /\ n > c.handler.nargs) => (~c.ok /\ lerror = "TypeError")

\* A message with more arguments than its handler declares has been
\* dispatched.
C9_Witness ==
    \E i \in 1..Len(hcalls) :
        /\ ~hcalls[i].handler.var
        /\ Len(hcalls[i].given) > hcalls[i].handler.nargs

\* C10: a line that parse() cannot tokenize is dropped: the loop goes on
\* reading, no error leaves listen() and the connection stays up.
C10_UnparseableDropped ==
    (lhandled /\ ParseFails(lline)) => (lerror = "none" /\ lpc = "loop" /\ alive)

\* C11: a send or send_raw call with malformed arguments raises the
\* validation error in the calling thread before it returns, and nothing of
\* it is written to the socket, with and without flood control.
C11_ValidationInCaller ==
    /\ \A i \in 1..Len(sendLog) :
          (~TextValid(sendLog[i].text) /\ sendLog[i].end # "pending")
             => sendLog[i].end = "raised"
    /\ \A k \in 1..Len(wire) : TextValid(wire[k].text)

\* C13: when the read fails with a socket error of the accepted family or
\* the stream ends, the listen loop returns without raising, alive is false,
\* the callback of listen_async was called exactly once and listen_event is
\* set.
C13_CleanDisconnect ==
    /\ (lpc \in {"returned", "raised"} /\ lerror = "none") =>
          /\ lpc = "returned"
          /\ ~alive
          /\ listen_event
          /\ lmode = "async" => cbCalls = 1
    /\ cbCalls <= 1

\* The stream ended after a line was handled and the thread of listen_async
\* is done.
C13_Witness ==
    lpc = "returned" /\ lmode = "async" /\ nread >= 1 /\ lerror = "none"

\* The on_raw call for the line _handle() was called for.
RawCallOf(l) ==
    [nick |-> Parse(l).nick, cmd |-> Parse(l).cmd, args |-> Parse(l).args]

Dispatched433 ==
    lhandled /\ ~ParseFails(lline) /\ Parse(lline).cmd = <<"433">>

\* C12: register() ends in one of three ways: it returns after the 001
\* reply was dispatched, it raises the name-conflict error when a 433 reply
\* is dispatched before any 001, it raises the connection-lost error when
\* the stream ends before 001; a 433 reply after the registration raises
\* nothing.
C12_RegisterThreeWays ==
    /\ rpc = "returned" => is_registered
    /\ rpc = "raised" =>
          /\ ~is_registered
          /\ \/ lerror = "IOError" /\ ~lhandled
             \/ lerror = "ValueError" /\ Dispatched433
    /\ (is_registered /\ Dispatched433) => lerror = "none"

(***************************************************************************)
(* Claims about format() and parse(), checked under SpecFormat.            *)
(***************************************************************************)

\* The string contains the character.
Has(str, c) == \E k \in 1..Len(str) : str[k] = c

\* Some argument contains NUL, CR or LF.
HasNewline(args) ==
    \E i \in 1..Len(args) : Has(args[i], "LF") \/ Has(args[i], "CR")

\* The faults of an argument list that C16 lists.
ListedFault(args) ==
    \/ \E i \in 1..Len(args) : args[i] = <<>>
    \/ HasNewline(args)
    \/ \E i \in 1..(Len(args) - 1) : Has(args[i], " ") \/ args[i][1] = ":"

\* C15: for every command and argument list that format() accepts (no
\* argument empty or containing NUL, CR or LF, only the last containing a
\* space or starting with ":"), parse(format(command, args)) yields the same
\* command and the same argument list.
C15_RoundTrip ==
    (pres.state # "none" /\ ~ListedFault(fargs)) =>
        (pres.state = "parsed" /\ pres.cmd = fcmd /\ pres.args = fargs)

\* C16: format(), given an alphanumeric command, raises if and only if some
\* argument is empty, some argument contains NUL, CR or LF, or some argument
\* but the last contains a space or starts with ":"; otherwise it returns a
\* line.
C16_RaisesIffListed ==
    (fres.state # "none" /\ fcmd # <<>> /\ NoneIn(fcmd, NotAlnum)) =>
        (fres.state = "raised" <=> ListedFault(fargs))

(***************************************************************************)
(* Claims about IStr, checked under SpecIStr.                              *)
(***************************************************************************)

\* The comparison of the pair is one the claims are about: at least one
\* of the two is an IStr.
InScope(x, y) == x.istr \/ y.istr

\* Equality is by the canonical lowercase form, it is reflexive, symmetric
\* and transitive, and the texts are what they were made of.
IStrEquivalence ==
    /\ InScope(ia, ib) => (icmp.ab <=> MakeLower(ia.s) = MakeLower(ib.s))
    /\ ia.istr => icmp.aa
    /\ InScope(ia, ib) => (icmp.ab <=> icmp.ba)
    /\ (InScope(ia, ib) /\ InScope(ib, ic) /\ InScope(ia, ic)) =>
           ((icmp.ab /\ icmp.bc) => icmp.ac)
    /\ <<ia.s, ib.s, ic.s>> = icmp.given

\* C17 as stated: two identifiers (IStr, or an IStr and a plain string) are
\* equal iff their canonical lowercase forms are the same; equality is
\* reflexive, symmetric and transitive, equal identifiers have equal
\* hashes, and comparison never changes the stored display string.
C17_EqualHashAll ==
    icmp.state = "done" =>
        /\ IStrEquivalence
        /\ (InScope(ia, ib) /\ icmp.ab) => icmp.ha = icmp.hb

\* C17 amended: as above, but equal hashes are guaranteed between two IStr;
\* a plain string equal to an IStr has the hash of the IStr exactly when
\* its own text is already in canonical lowercase.
C17_EqualHashIStr ==
    icmp.state = "done" =>
        /\ IStrEquivalence
        /\ (ia.istr /\ ib.istr /\ icmp.ab) => icmp.ha = icmp.hb
        /\ (ia.istr /\ ~ib.istr /\ icmp.ab) =>
               (icmp.ha = icmp.hb <=> ib.s = MakeLower(ib.s))
        /\ (~ia.istr /\ ib.istr /\ icmp.ab) =>
               (icmp.ha = icmp.hb <=> ia.s = MakeLower(ia.s))

\* C17 witness: an IStr and a plain string that differ in case were found
\* equal, with different hashes, and two IStr that differ in case were
\* found equal with the same hash.
C17_Witness ==
    /\ icmp.state = "done"
    /\ ia = IStrNew(<<"A", "{">>)
    /\ ib = Str(<<"a", "[">>)
    /\ ic = IStrNew(<<"a", "[">>)
    /\ icmp.ab /\ icmp.ac /\ icmp.ha # icmp.hb

STRing == IStrNew(<<"S", "T", "R", "i", "n", "g", "^">>)

\* C18 as stated: IStr("STRing^") equals "string}" and equals "STRING~".
C18_DocExample ==
    (icmp.state = "done" /\ ia = STRing) =>
        /\ ib = Str(<<"s", "t", "r", "i", "n", "g", "}">>) => icmp.ab
        /\ ib = Str(<<"S", "T", "R", "I", "N", "G", "~">>) => icmp.ab

\* C18 amended: IStr("STRing^") equals "string^" and "STRING~", and does
\* not equal "string}" ("}" is the lowercase of "]", not of "^").
C18_CaretExample ==
    (icmp.state = "done" /\ ia = STRing) =>
        /\ ib = Str(<<"s", "t", "r", "i", "n", "g", "^">>) => icmp.ab
        /\ ib = Str(<<"S", "T", "R", "I", "N", "G", "~">>) => icmp.ab
        /\ ib = Str(<<"s", "t", "r", "i", "n", "g", "}">>) => ~icmp.ab

\* C18 witness: IStr("STRing^") was compared with "STRING~" and found equal.
C18_Witness ==
    /\ icmp.state = "done"
    /\ ia = STRing
    /\ ib = Str(<<"S", "T", "R", "I", "N", "G", "~">>)
    /\ icmp.ab

(***************************************************************************)
(* Claims about the NAMES replies, checked under SpecNames.                *)
(***************************************************************************)

\* The 353 replies of the log that are for the channel.
RepliesFor(log, channel) ==
    SelectSeq(log, LAMBDA r : MakeLower(r.channel) = MakeLower(channel))

\* The names of the replies, in arrival order, without their prefixes.
RECURSIVE NamesOf(_)
NamesOf(replies) ==
    IF replies = <<>> THEN <<>>
    ELSE StripAll(Head(replies).names) \o NamesOf(Tail(replies))

\* The calls of on_names, made by the last 366, that are for the channel.
CallsFor(channel) ==
    {i \in 1..Len(onNames) : MakeLower(onNames[i].chan) = MakeLower(channel)}

\* C19: when a 366 for channel C is dispatched, if 353 replies for C were
\* accumulated since the last commit, on_names fires exactly once for C with
\* exactly the accumulated names in arrival order, the @ and + prefixes
\* stripped; if none was accumulated, on_names(C, []) fires.
C19_NamesSnapshot ==
    last366.state = "done" =>
        IF RepliesFor(last366.log, last366.channel) # <<>>
            THEN /\ Cardinality(CallsFor(last366.channel)) = 1
                 /\ \A i \in CallsFor(last366.channel) :
                       onNames[i].names =
                           NamesOf(RepliesFor(last366.log, last366.channel))
            ELSE \E i \in CallsFor(last366.channel) :
                     onNames[i] = [chan |-> last366.channel, names |-> <<>>]

\* C19 witness: two 353 replies for #a and #A, with prefixed names, were
\* committed by a 366 for #a in one call of on_names.
C19_Witness ==
    /\ last366.state = "done"
    /\ last366.channel = <<"#", "a">>
    /\ last366.log = <<[channel |-> <<"#", "A">>,
                        names |-> <<"@", "a", " ", "+", "G">>],
                       [channel |-> <<"#", "a">>,
                        names |-> <<"+", "@", "G", " ", " ", "a", "+">>]>>
    /\ onNames = <<[chan |-> <<"#", "A">>,
                    names |-> <<(<<"a">>), <<"G">>, <<"G">>, <<"a", "+">> >>]>>

(***************************************************************************)
(* Claims about the run-as user, checked under SpecSpawn.                  *)
(***************************************************************************)

\* C20: when a run-as user is configured, the spawned command executes with
\* its user id equal to the UID of the account and its group id equal to the
\* GID of the account, and the spawn is refused when either of them is 0.
C20_RunsAsAccount ==
    account.user =>
        /\ cred.state \in {"running", "exited"} =>
               (cred.uid = account.uid /\ cred.gid = account.gid)
        /\ (cred.state # "none" /\ (account.uid = 0 \/ account.gid = 0)) =>
               cred.state = "refused"

\* C21: no command is ever executed with root privileges: without a run-as
\* user, shellbot running as root does not get to spawn a command.
C21_NeverRoot ==
    cred.state \in {"running", "exited"} => cred.uid # 0

(***************************************************************************)
(* Claims about failures of run(), checked under SpecCrash.                *)
(***************************************************************************)

\* The jobs that were put on the queue under the current epoch and that
\* the worker has not taken yet.
WaitingJobs ==
    {queue[i].job : i \in {k \in 1..Len(queue) :
                              queue[k].job # 0 /\ queue[k].state = state}}

\* C23: when a run fails (spawning or signalling raises), the failure is
\* reported as a result and the worker loop keeps running: a job enqueued
\* afterwards under the current epoch still has a worker to execute it.
C23_WorkerSurvivesFailure ==
    \A j \in WaitingJobs : wpc # "dead"

(***************************************************************************)
(* Claims about one call of run(), checked under SpecRun.                  *)
(***************************************************************************)

\* C22: a command that is still running when the read phase ends and that
\* ignores SIGTERM is sent SIGKILL only after SIGTERM and a wait of half the
\* timeout; run() then returns, with exactly the output captured during the
\* read phase, and the shell is not left running.
C22_KillAfterTermAndWait ==
    /\ xkill >= 0 => (xterm >= 0 /\ trap /\ xkill >= xterm + HalfTimeout)
    /\ xpc = "done" => (xret = xcap /\ shell = "exited")

\* C22 witness: the read phase ended by timeout with some output, the shell
\* ignored SIGTERM and was sent SIGKILL half the timeout later, and run()
\* has returned.
C22_Witness ==
    /\ xpc = "done"
    /\ xend = "timeout"
    /\ trap
    /\ xout > 0
    /\ xterm >= 0
    /\ xkill = xterm + HalfTimeout

\* C28: run() sends SIGTERM to the process group every time the read phase
\* ends, also when the shell has exited and children of it remain.
C28_TermEveryTime ==
    xpc \in {"wait", "done"} => xterm >= 0

\* C29: the output captured for one command never exceeds the byte cap.
C29_OutputWithinCap ==
    xout <= OutputLimit

(***************************************************************************)
(* Claims about the consecutive count, checked under SpecThrottle.         *)
(***************************************************************************)

\* The latest add_delayed() call had a predecessor to the same target.
HasPrevious == lastSub.target # 0 /\ lastSub.prevConsec >= 0

\* The time from the last-send-time of the target to the call.
Elapsed == lastSub.clock - lastSub.prevDue

\* C30 as stated: the count used for a new submission is reset to 0 only
\* when strictly more than the idle threshold has elapsed since the target's
\* last-send-time; when the elapsed time is at most the threshold, the
\* previous count is used, and then incremented by one.
C30_ResetAfterMoreThan ==
    HasPrevious =>
        /\ Elapsed > ConsecutiveTimeout => lastSub.consec = 0
        /\ Elapsed <= ConsecutiveTimeout =>
               lastSub.consec = lastSub.prevConsec + 1
        /\ last_sent[lastSub.target][2] = lastSub.consec + 1

\* C30 amended: the count is reset to 0 when at least the idle threshold
\* has elapsed; when less has elapsed the previous count is used, and then
\* incremented by one.
C30_ResetAtThreshold ==
    HasPrevious =>
        /\ Elapsed >= ConsecutiveTimeout => lastSub.consec = 0
        /\ Elapsed < ConsecutiveTimeout =>
               lastSub.consec = lastSub.prevConsec + 1
        /\ last_sent[lastSub.target][2] = lastSub.consec + 1

\* C30 witness: a call exactly the idle threshold after the last-send-time
\* of its target, with the count reset.
C30_Witness ==
    /\ HasPrevious
    /\ Elapsed = ConsecutiveTimeout
    /\ lastSub.consec = 0

(***************************************************************************)
(* Claims about the visible roster during NAMES replies, checked under     *)
(* SpecNames.                                                              *)
(***************************************************************************)

\* Every channel of the ghost dictionary has the roster recorded for it.
RosterAsBefore(pre) ==
    \A i \in 1..Len(pre) : DictGet(nicklist, pre[i].key) = pre[i].value

\* The last 366 reply made the names accumulated for each channel its
\* roster.
Committed ==
    last366.state = "done" /\ since = <<>> =>
        \A i \in 1..Len(last366.log) :
            DictGet(nicklist, last366.log[i].channel)
                = NamesOf(RepliesFor(last366.log, last366.log[i].channel))

OwnNick == lastEv.kind = "NICK" /\ lastEv.own

\* The roster of channel c holds the new nickname if it held the old one,
\* and no longer the old one unless the two are the same identifier.
Renamed(c) ==
    /\ Contains(DictGet(lastEv.nicklist, c), lastEv.nick)
           => Contains(DictGet(nicklist, c), lastEv.arg)
    /\ IEq(lastEv.nick, lastEv.arg)
           \/ ~Contains(DictGet(nicklist, c), lastEv.nick)

\* C26: after a NICK event whose old nickname is the own nickname, the own
\* nickname is the new nickname, whatever the joined channels are, and in
\* the roster of every joined channel the old nickname is replaced by the
\* new one.
C26_OwnNickFollows ==
    OwnNick =>
        /\ self_nickname = lastEv.arg
        /\ \A i \in 1..Len(channels) : Renamed(channels[i])

\* No channel occurs twice in the list of joined channels.
NoDuplicate(list) ==
    \A i, j \in 1..Len(list) : i # j => ~IEq(list[i], list[j])

\* C27: no channel occurs more than once in the joined channels, compared
\* under case folding, and after the own PART or KICK from a channel the
\* channel is not one of them.
C27_ChannelsAreASet ==
    /\ NoDuplicate(channels)
    /\ lastEv.kind \in {"PART", "KICK"} /\ lastEv.own /\ ~rerror
           => ~Contains(channels, lastEv.arg)

(***************************************************************************)
(* Claims about a second connect() on the same bot, checked under          *)
(* SpecReconnect.                                                          *)
(***************************************************************************)

\* The entry was queued by an add_delayed() call of the current session.
OfThisSession(e) == e.id > subAt

\* C24: after close_socket(), a new connect() starts from reset session
\* state: what the new session writes to the socket and what its delay
\* buffer holds was queued in the new session, and until the first send of
\* the new session the delay buffer is empty and the throttle state is the
\* initial one.
C24_FreshSession ==
    session > 0 =>
        /\ \A i \in (wireAt + 1)..Len(wire) : OfThisSession(wire[i])
        /\ \A i \in 1..Len(delay_buffer) : OfThisSession(delay_buffer[i])
        /\ nsub = subAt =>
               /\ delay_buffer = <<>>
               /\ last_sent = [t \in Targets |-> <<0, 0>>]

(***************************************************************************)
(* Claims about the order of the delay buffer, checked under SpecSend.     *)
(***************************************************************************)

\* C31: delayed sends with the same due-time are written to the socket in
\* the order in which they were inserted into the delay buffer, whatever
\* their targets and texts are.
C31_TiesInInsertionOrder ==
    \A i, j \in 1..Len(wire) :
        i < j /\ wire[i].time = wire[j].time => wire[i].id <= wire[j].id

(***************************************************************************)
(* Claims about the end of delay_loop(), checked under SpecTeardown.       *)
(***************************************************************************)

\* C32: after close_socket() has set alive to false, delay_loop() ends,
\* under every interleaving of close_socket() with the loop.
C32_LoopStops == ~alive ~> dpc \in {"done", "raised"}

(***************************************************************************)
(* Claims about split_string, checked under SpecSplit.                     *)
(***************************************************************************)

\* The pieces of a sequence of pieces, one after the other.
RECURSIVE Concat(_)
Concat(pieces) ==
    IF pieces = <<>> THEN <<>> ELSE Head(pieces) \o Concat(Tail(pieces))

\* C33: every piece of split_string takes at most bytelen bytes as UTF-8,
\* and no character of several bytes is divided between two pieces: no
\* piece fails to decode, and without word-preserving mode the pieces and
\* the remaining text are the characters of the string, in order.
C33_PiecesFit ==
    /\ serror # "UnicodeDecodeError"
    /\ \A i \in 1..Len(sresult) : Len(Encode(sresult[i])) <= sbytelen
    /\ \A i \in 1..Len(sresult) :
           \A k \in 1..Len(sresult[i]) : sresult[i][k] \in SplitChars
    /\ (spc # "none" /\ ~snobreak) => Concat(sresult) \o srest = sstring

\* C33 witness: split_string returned several pieces, and the first cut by
\* the number of bytes fell inside a character.
C33_Witness ==
    /\ spc = "returned"
    /\ Len(sresult) >= 2
    /\ Len(Encode(sstring)) > sbytelen
    /\ Width(Encode(sstring)[sbytelen + 1]) = 0

\* C34: split_string ends for every string and every positive bytelen:
\* it raises nothing, and each iteration of its loop leaves less text than
\* it found, or none.
C34_EveryIterationShortens ==
    /\ serror = "none"
    /\ sresult # <<>> =>
           srest = <<>> \/ Len(Encode(srest)) < Len(Encode(sprev))

(***************************************************************************)
(* Claims about the delivery of delayed messages, checked under            *)
(* SpecDeliver.                                                            *)
(***************************************************************************)

\* The message of the k-th add_delayed() call is in the delay buffer and
\* format() accepts it.
Accepted(k) ==
    \E i \in 1..Len(delay_buffer) :
        delay_buffer[i].id = k /\ TextValid(delay_buffer[i].text)

\* The message of the k-th add_delayed() call was written to the socket.
Written(k) == \E i \in 1..Len(wire) : wire[i].id = k

\* The scheduler removed the message of the k-th call from the delay
\* buffer in place of the one it had sent.
Removed(k) == \E i \in 1..Len(deleted) : deleted[i] = k

\* C35: with flood control and the connection alive, every message that
\* add_delayed() accepted is eventually written to the socket, also when a
\* message queued before it is rejected by format() when it is sent.  The
\* messages that the scheduler removes unsent are left aside.
C35_EventuallyWritten ==
    \A k \in 1..MaxSubmits : Accepted(k) ~> (Written(k) \/ Removed(k))

(***************************************************************************)
(* Claims about command_done, checked under SpecDone.                      *)
(***************************************************************************)

\* The number of self.send() calls of a kind.
Sent(kind) == Len(SelectSeq(msent, LAMBDA m : m.kind = kind))

\* The messages that the non-empty lines of the output make.
OutputMessages == SplitLines(Cleaned(mlines))

\* C36: command_done sends at most max_lines output messages, sends the
\* notice of the trimming whenever an output message was withheld because
\* of that limit, and sends "Command produced no output." exactly when the
\* output has no line that is not empty.
C36_TrimmedWheneverWithheld ==
    mpc = "returned" =>
        /\ Sent("output") <= max_lines
        /\ Sent("output") < Len(OutputMessages) => Sent("trimmed") = 1
        /\ Sent("no output") = 1 <=> Cleaned(mlines) = <<>>

====
